---- MODULE Spec2Model ----
(***************************************************************************)
(* Model of the concurrency controller of the storage engine:              *)
(*   - LockManager (src/src/transaction/concurrency/lock_manager.cpp)      *)
(*   - TransactionManager (src/src/transaction/transaction_manager.cpp)    *)
(* The lock table is a map LockDataId -> request queue guarded by one      *)
(* mutex, so every lock_internal / unlock call is one atomic step.         *)
(* commit and abort are a prologue, one unlock step per held lock, and an  *)
(* epilogue, so that other transactions interleave with the release.       *)
(***************************************************************************)
EXTENDS Integers, Sequences, FiniteSets, TLC

\* ---------------------------------------------------------------- bounds
\* number of begin(nullptr) calls in one run
MaxTxn == 2
\* number of record ids of the (single) table
NumRecords == 1

\* ------------------------------------------------------------ data model
Txns == 0 .. (MaxTxn - 1)

\* LockMode
Modes == {"IS", "IX", "S", "SIX", "X"}

\* LockDataId: TABLE(fd) or RECORD(fd, rid); one table, rid 0 stands for "no rid"
TableId == [type |-> "TABLE", rid |-> 0]
RecordIds == {[type |-> "RECORD", rid |-> k] : k \in 1 .. NumRecords}
Ids == {TableId} \cup RecordIds

\* results of a lock manager call: success or the AbortReason thrown
Results == {"OK", "LOCK_ON_SHRINKING", "DEADLOCK_PREVENTION", "UPGRADE_CONFLICT"}

VARIABLES
    lock_table,   \* LockManager::lock_table_ : LockDataId -> queue (a partial map)
    txn_state,    \* Transaction::state_ per transaction ("NONE" before begin)
    lock_set,     \* Transaction::lock_set_ per transaction
    txn_map,      \* TransactionManager::txn_map (the keys)
    next_txn_id,  \* TransactionManager::next_txn_id_
    pc,           \* position of each transaction: idle, inside commit, inside abort
    to_release,   \* release_all_locks: the copy of lock_set still to unlock
    released,     \* history: the transaction has released a lock or started commit/abort
    last,         \* history: the last call and its result
    new_txn,      \* begin(nullptr) in flight: ids allocated, not yet in txn_map
    file_hdr,     \* RmFileHandle::file_hdr_ : num_pages, first_free_page_no
    pages,        \* the data pages of the file: header, bitmap and slots
    write_set,    \* Transaction::write_set_ per transaction
    undo_it,      \* abort: the write records its reverse iterator has not reached
    opened,       \* history: the records of the file when it was opened
    ins,          \* insert_record in flight: the slot its first_bit found
    scan,         \* SeqScanExecutor per transaction: scan_ and rid_
    catalog,      \* TabMeta::indexes: the column lists of the indexes of the table
    index,        \* SmManager::ihs_: the entries (key, rid) of each open index
    threw,        \* history: an operator run of the transaction has thrown
    ixscan,       \* IndexScanExecutor per transaction: its index, conditions, scan_, rid_
    join,         \* NestedLoopJoinExecutor per transaction: conditions, isend, tuples returned
    pinned,       \* history: the pages the last call of each transaction left pinned
    col_index     \* ColMeta::index of each column of the table

\* the state of the record manager and of the undo
rm_vars == <<file_hdr, pages, write_set, undo_it, pinned>>

\* the indexes of the table
dml_vars == <<catalog, index, threw, col_index>>

\* the index scan and the join of a transaction
rd_vars == <<ixscan, join>>

\* the state of calls in flight and of the executors
ex_vars == <<ins, scan, dml_vars, rd_vars>>

vars == <<lock_table, txn_state, lock_set, txn_map, next_txn_id, pc, to_release,
          released, last, new_txn, file_hdr, pages, write_set, undo_it, opened,
          ins, scan, catalog, index, threw, ixscan, join, pinned,
          col_index>>

\* the call record before any call: op "off" when calls are not recorded
\* (specification Spec), op "none" when they are (specification SpecCalls)
NoCall == [op |-> "off", txn |-> 0, id |-> TableId, mode |-> "IS", res |-> "OK"]

FirstCall == [NoCall EXCEPT !.op = "none"]

\* the record of a call: the operation, its arguments, and how it ended
\* (success or the AbortReason thrown)
Call(op, txn, id, mode, res) ==
    IF last.op = "off" THEN last
    ELSE [op |-> op, txn |-> txn, id |-> id, mode |-> mode, res |-> res]

\* a call on the transaction manager has no id and no mode
TmCall(op) == Call(op, 0, TableId, "IS", "OK")

\* --------------------------------------------------------------- helpers
\* the queue lock_table_[id] refers to; operator[] yields an empty queue
\* when the key is absent
QueueOf(tab, id) == IF id \in DOMAIN tab THEN tab[id] ELSE <<>>

\* the map with the queue of id set to rq (the key is created if absent)
WithQueue(tab, id, rq) ==
    [x \in (DOMAIN tab) \cup {id} |-> IF x = id THEN rq ELSE tab[x]]

\* the map without the key id
WithoutKey(tab, id) == [x \in (DOMAIN tab) \ {id} |-> tab[x]]

\* position of the first request of txn in rq, 0 if there is none
RECURSIVE FindFrom(_, _, _)
FindFrom(rq, txn, i) ==
    IF i > Len(rq) THEN 0
    ELSE IF rq[i].txn_id = txn THEN i
    ELSE FindFrom(rq, txn, i + 1)

FindRequest(rq, txn) == FindFrom(rq, txn, 1)

\* ---------------------------------------------------------- lock manager
\* compat with the SIX row mistaken for the S row: SIX also admits S
compat_six_as_s(a, b) ==
    IF a = "X" \/ b = "X" THEN FALSE
    ELSE IF a = "SIX" \/ b = "SIX"
         THEN LET other == IF a = "SIX" THEN b ELSE a IN other = "S" \/ other = "IS"
    ELSE IF a = "S" \/ b = "S"
         THEN LET other == IF a = "S" THEN b ELSE a IN other = "S" \/ other = "IS"
    ELSE IF a = "IX" \/ b = "IX"
         THEN LET other == IF a = "IX" THEN b ELSE a IN other = "IX" \/ other = "IS"
    ELSE TRUE

\* the lambda compat of compatible_with_granted: the cascade of the code
compat(a, b) ==
    IF a = "X" \/ b = "X" THEN FALSE
    ELSE IF a = "SIX" \/ b = "SIX"
         THEN LET other == IF a = "SIX" THEN b ELSE a IN other = "IS"
    ELSE IF a = "S" \/ b = "S"
         THEN LET other == IF a = "S" THEN b ELSE a IN other = "S" \/ other = "IS"
    ELSE IF a = "IX" \/ b = "IX"
         THEN LET other == IF a = "IX" THEN b ELSE a IN other = "IX" \/ other = "IS"
    ELSE TRUE

\* LockManager::compatible_with_granted: requested against every granted
\* request of the queue that is not self's
compatible_with_granted(rq, self, requested) ==
    \A i \in 1 .. Len(rq) :
        \/ ~rq[i].granted
        \/ rq[i].txn_id = self
        \/ compat(requested, rq[i].lock_mode)

\* the lambda combine_mode of lock_internal; "nullopt" is std::nullopt
combine_mode(type, cur, req) ==
    IF cur = "X" THEN cur
    ELSE IF req = "IS" THEN cur
    ELSE IF type = "RECORD" THEN
        IF cur = req THEN cur
        ELSE IF cur = "S" /\ req = "X" THEN "X"
        ELSE "nullopt"
    ELSE IF cur = req THEN cur
    ELSE IF cur = "IS" /\ req \in {"S", "IX", "SIX", "X"} THEN req
    ELSE IF cur = "IX" /\ req = "S" THEN "SIX"
    ELSE IF cur = "IX" /\ req = "SIX" THEN "SIX"
    ELSE IF cur = "IX" /\ req = "X" THEN "X"
    ELSE IF cur = "S" /\ req = "IX" THEN "SIX"
    ELSE IF cur = "S" /\ req = "SIX" THEN "SIX"
    ELSE IF cur = "S" /\ req = "X" THEN "X"
    ELSE IF cur = "SIX" /\ req = "S" THEN "SIX"
    ELSE IF cur = "SIX" /\ req = "IX" THEN "SIX"
    ELSE IF cur = "SIX" /\ req = "X" THEN "X"
    ELSE "nullopt"

\* lock_internal without the 2PL gate
shrinking_gate_off(st) == FALSE

\* the 2PL gate at the head of lock_internal
shrinking_gate(st) == st = "SHRINKING"

\* emplace_back(txn_id, mode) alone: the constructor leaves granted_ false
grant_request_pending(rq, txn, mode) ==
    Append(rq, [txn_id |-> txn, lock_mode |-> mode, granted |-> FALSE])

\* emplace_back(txn_id, mode) followed by granted_ = true
grant_request(rq, txn, mode) ==
    Append(rq, [txn_id |-> txn, lock_mode |-> mode, granted |-> TRUE])

\* lock_internal that forgets to record the id in the lock set
lock_set_insert_none(ls, id) == ls

\* txn->get_lock_set()->insert(lock_data_id)
lock_set_insert(ls, id) == ls \cup {id}

\* the upgrade branch without the compatibility check of the new mode
upgrade_request_unchecked(rq, idx, txn, type, mode) ==
    IF ~rq[idx].granted
    THEN [res |-> "DEADLOCK_PREVENTION", rq |-> rq, ins |-> FALSE]
    ELSE LET cur == rq[idx].lock_mode
             new_mode == combine_mode(type, cur, mode)
         IN IF new_mode = "nullopt"
            THEN [res |-> "UPGRADE_CONFLICT", rq |-> rq, ins |-> FALSE]
            ELSE [res |-> "OK", rq |-> [rq EXCEPT ![idx].lock_mode = new_mode],
                  ins |-> FALSE]

\* the re-entrant / upgrade branch of lock_internal for the request at idx
upgrade_request(rq, idx, txn, type, mode) ==
    IF ~rq[idx].granted
    THEN [res |-> "DEADLOCK_PREVENTION", rq |-> rq, ins |-> FALSE]
    ELSE LET cur == rq[idx].lock_mode
             new_mode == combine_mode(type, cur, mode)
         IN IF new_mode = "nullopt"
            THEN [res |-> "UPGRADE_CONFLICT", rq |-> rq, ins |-> FALSE]
            ELSE IF new_mode = cur
            THEN [res |-> "OK", rq |-> rq, ins |-> FALSE]
            ELSE IF ~compatible_with_granted(rq, txn, new_mode)
            THEN [res |-> "UPGRADE_CONFLICT", rq |-> rq, ins |-> FALSE]
            ELSE [res |-> "OK", rq |-> [rq EXCEPT ![idx].lock_mode = new_mode],
                  ins |-> FALSE]

\* the new-request branch of a waiting lock manager: a conflicting request
\* is left in the queue, not granted
new_request_wait(rq, txn, mode) ==
    IF ~compatible_with_granted(rq, txn, mode)
    THEN [res |-> "DEADLOCK_PREVENTION",
          rq |-> Append(rq, [txn_id |-> txn, lock_mode |-> mode, granted |-> FALSE]),
          ins |-> FALSE]
    ELSE [res |-> "OK", rq |-> grant_request(rq, txn, mode), ins |-> TRUE]

\* the new-request branch of lock_internal
new_request(rq, txn, mode) ==
    IF ~compatible_with_granted(rq, txn, mode)
    THEN [res |-> "DEADLOCK_PREVENTION", rq |-> rq, ins |-> FALSE]
    ELSE [res |-> "OK", rq |-> grant_request(rq, txn, mode), ins |-> TRUE]

\* the body of lock_internal under the latch: result, queue afterwards, and
\* whether the id is inserted into the lock set
lock_queue(rq, txn, type, mode) ==
    LET idx == FindRequest(rq, txn)
    IN IF idx # 0 THEN upgrade_request(rq, idx, txn, type, mode)
       ELSE new_request(rq, txn, mode)

\* an erase that only looks at the head of the queue
erase_requests_head(rq, txn) ==
    IF rq # <<>> /\ rq[1].txn_id = txn THEN Tail(rq) ELSE rq

\* an erase that clears the whole queue
erase_requests_all(rq, txn) == <<>>

\* the erase loop of unlock: every request of txn leaves the queue
erase_requests(rq, txn) == SelectSeq(rq, LAMBDA r : r.txn_id # txn)

\* the state transition at the end of unlock
unlock_state(st) == IF st = "GROWING" THEN "SHRINKING" ELSE st

\* an unlock that leaves the queue in the lock table when it becomes empty
unlock_table_keep(tab, txn, id) == WithQueue(tab, id, erase_requests(tab[id], txn))

\* unlock under the latch: the lock table afterwards
unlock_table(tab, txn, id) ==
    LET rq == erase_requests(tab[id], txn)
    IN IF rq = <<>> THEN WithoutKey(tab, id) ELSE WithQueue(tab, id, rq)

\* a live transaction that is not inside commit or abort may call in
CanCall(txn) == txn \in txn_map /\ pc[txn] = "idle"

\* a transaction in its growing phase that can make a call
Caller(txn) == CanCall(txn) /\ txn_state[txn] = "GROWING"

\* LockManager::lock_internal(txn, id, mode), txn not null
LockInternal(txn, id, mode) ==
    /\ CanCall(txn)
    /\ IF shrinking_gate(txn_state[txn])
       THEN /\ last' = Call("lock", txn, id, mode, "LOCK_ON_SHRINKING")
            /\ UNCHANGED <<lock_table, lock_set>>
       ELSE LET out == lock_queue(QueueOf(lock_table, id), txn, id.type, mode)
            IN /\ lock_table' = WithQueue(lock_table, id, out.rq)
               /\ lock_set' = IF out.ins
                              THEN [lock_set EXCEPT ![txn] = lock_set_insert(@, id)]
                              ELSE lock_set
               /\ last' = Call("lock", txn, id, mode, out.res)
    /\ UNCHANGED <<txn_state, txn_map, next_txn_id, pc, to_release, released>>
    /\ UNCHANGED <<new_txn, opened, ex_vars, rm_vars>>

\* LockManager::unlock(txn, id), txn not null: the effect on the lock
\* manager's and the transaction's state
DoUnlock(txn, id) ==
    IF id \notin DOMAIN lock_table
    THEN UNCHANGED <<lock_table, lock_set, txn_state, released>>
    ELSE /\ lock_table' = unlock_table(lock_table, txn, id)
         /\ lock_set' = [lock_set EXCEPT ![txn] = @ \ {id}]
         /\ txn_state' = [txn_state EXCEPT ![txn] = unlock_state(@)]
         /\ released' = [released EXCEPT
                           ![txn] = @ \/ FindRequest(lock_table[id], txn) # 0]

\* unlock called directly by the owner of the transaction
Unlock(txn, id) ==
    /\ CanCall(txn)
    /\ DoUnlock(txn, id)
    /\ last' = Call("unlock", txn, id, "IS", "OK")
    /\ UNCHANGED <<txn_map, next_txn_id, pc, to_release, new_txn, opened, ex_vars, rm_vars>>

\* --------------------------------------------------- transaction manager
\* TransactionManager::begin(nullptr): a new transaction with the next id
BeginNew ==
    /\ next_txn_id < MaxTxn
    /\ LET txn == next_txn_id
       IN /\ next_txn_id' = next_txn_id + 1
          /\ txn_state' = [txn_state EXCEPT ![txn] = "GROWING"]
          /\ txn_map' = txn_map \cup {txn}
          /\ last' = TmCall("begin")
    /\ UNCHANGED <<lock_table, lock_set, pc, to_release, released, new_txn, opened, ex_vars, rm_vars>>

\* an increment that is lost: the counter keeps its value
fetch_add_lost(n) == [ret |-> n, val |-> n]

\* next_txn_id_.fetch_add(1): the value returned and the value left
fetch_add(n) == [ret |-> n, val |-> n + 1]

\* begin(nullptr) on its own thread, first half: the id is taken from the
\* atomic counter and the Transaction is constructed in state GROWING
BeginAlloc ==
    /\ next_txn_id < MaxTxn
    /\ LET txn_id == fetch_add(next_txn_id).ret
       IN /\ next_txn_id' = fetch_add(next_txn_id).val
          /\ txn_state' = [txn_state EXCEPT ![txn_id] = "GROWING"]
          /\ new_txn' = new_txn \cup {txn_id}
    /\ last' = TmCall("begin")
    /\ UNCHANGED <<lock_table, lock_set, txn_map, pc, to_release, released, rm_vars,
                   opened, ex_vars>>

\* begin(nullptr), second half: under latch_ the transaction enters txn_map,
\* and begin returns it
BeginRegister(txn) ==
    /\ txn \in new_txn
    /\ txn_map' = txn_map \cup {txn}
    /\ new_txn' = new_txn \ {txn}
    /\ last' = TmCall("begin")
    /\ UNCHANGED <<lock_table, txn_state, lock_set, next_txn_id, pc, to_release,
                   released, rm_vars, opened, ex_vars>>

\* TransactionManager::begin(txn) with an existing transaction
BeginExisting(txn) ==
    /\ CanCall(txn)
    /\ txn_state' = [txn_state EXCEPT ![txn] = "GROWING"]
    /\ last' = TmCall("begin")
    /\ UNCHANGED <<lock_table, lock_set, txn_map, next_txn_id, pc, to_release,
                   released, new_txn, opened, ex_vars, rm_vars>>

\* the prologue of commit / abort: state SHRINKING; abort sets its reverse
\* iterator to the end of the write set; release_all_locks, which runs after
\* the undo, copies the lock set (no step of the undo changes it)
StartEnd(txn, which) ==
    /\ CanCall(txn)
    /\ txn_state' = [txn_state EXCEPT ![txn] = "SHRINKING"]
    /\ to_release' = [to_release EXCEPT ![txn] = lock_set[txn]]
    /\ pc' = [pc EXCEPT ![txn] = which]
    /\ released' = [released EXCEPT ![txn] = TRUE]
    /\ last' = TmCall(which)
    /\ undo_it' = [undo_it EXCEPT ![txn] = IF which = "abort"
                                            THEN Len(write_set[txn]) ELSE 0]
    /\ UNCHANGED <<lock_table, lock_set, txn_map, next_txn_id, new_txn, opened, ex_vars, file_hdr,
                   pages, write_set, pinned>>

\* TransactionManager::commit(txn): prologue
CommitStart(txn) == StartEnd(txn, "commit")

\* TransactionManager::abort(txn): prologue (the undo of the write set runs
\* with a null transaction and so makes no lock manager call that changes state)
AbortStart(txn) == StartEnd(txn, "abort")

\* release_all_locks: one iteration of the unlock loop
ReleaseStep(txn, id) ==
    /\ txn \in txn_map
    /\ pc[txn] \in {"commit", "abort"}
    /\ undo_it[txn] = 0
    /\ id \in to_release[txn]
    /\ DoUnlock(txn, id)
    /\ to_release' = [to_release EXCEPT ![txn] = @ \ {id}]
    /\ last' = Call("unlock", txn, id, "IS", "OK")
    /\ UNCHANGED <<txn_map, next_txn_id, pc, new_txn, opened, ex_vars, rm_vars>>

\* the final state commit / abort set
final_state(which) == IF which = "commit" THEN "COMMITTED" ELSE "ABORTED"

\* the epilogue of commit / abort: lock_set cleared, cleanup_write_set, final
\* state, the transaction leaves txn_map and is destroyed
FinishEnd(txn) ==
    /\ txn \in txn_map
    /\ pc[txn] \in {"commit", "abort"}
    /\ undo_it[txn] = 0
    /\ to_release[txn] = {}
    /\ lock_set' = [lock_set EXCEPT ![txn] = {}]
    /\ write_set' = [write_set EXCEPT ![txn] = <<>>]
    /\ txn_state' = [txn_state EXCEPT ![txn] = final_state(pc[txn])]
    /\ txn_map' = txn_map \ {txn}
    /\ pc' = [pc EXCEPT ![txn] = "idle"]
    /\ last' = TmCall("end")
    /\ UNCHANGED <<lock_table, next_txn_id, to_release, released, new_txn, opened, ex_vars,
                   file_hdr, pages, undo_it, pinned>>

\* -------------------------------------------------------- record manager
\* data pages the file may grow to
MaxPages == 2
\* file_hdr_.num_records_per_page of the table
num_records_per_page == 2
\* calls of insert_record / delete_record / update_record one transaction
\* makes beside others
MaxWrites == 2
\* the same of a transaction that is the only one to write
MaxWritesAlone == 3

RM_FILE_HDR_PAGE == 0
RM_NO_PAGE == -1

\* a null Transaction* in a Context
NoTxn == -1

PageNos == 1 .. MaxPages
SlotNos == 0 .. (num_records_per_page - 1)

\* Rid {page_no, slot_no}
Rids == [page_no : PageNos, slot_no : SlotNos]

\* the record bytes: 0 is what the committed records of the opened file hold,
\* Buf(txn) what transaction txn writes, so that the bytes of a slot name the
\* transaction that wrote them last
Buf(txn) == txn + 1
Bytes == {0} \cup {Buf(t) : t \in Txns}

\* LockDataId(fd, rid, RECORD): the rids of the file are numbered from 1, page
\* by page (RecordIds are the first NumRecords of them)
RecordLockId(rid) ==
    [type |-> "RECORD",
     rid |-> (rid.page_no - 1) * num_records_per_page + rid.slot_no + 1]

\* every LockDataId of the file
LockIds == {TableId} \cup {RecordLockId(rid) : rid \in Rids}

\* a page as create_new_page_handle initialises it
BlankPage ==
    [num_records |-> 0, next_free_page_no |-> RM_NO_PAGE,
     bitmap |-> [i \in SlotNos |-> FALSE], slots |-> [i \in SlotNos |-> 0]]

\* the three kinds of WriteRecord; an INSERT_TUPLE record carries no bytes
WTypes == {"INSERT_TUPLE", "DELETE_TUPLE", "UPDATE_TUPLE"}
WriteRecord(wtype, rid, record) == [wtype |-> wtype, rid |-> rid, record |-> record]

\* the exceptions of the record manager
RmErrors == {"PageNotExistError", "RecordNotFoundError", "InternalError"}

\* no rid (a call that returns none)
NoRid == [page_no |-> RM_NO_PAGE, slot_no |-> 0]

\* What one call works on: the lock table, the caller's lock set and write
\* set, the file header and the pages, the indexes of the table; err is "OK"
\* until the call throws; page_no, rid and record hold what the call hands back;
\* pins are the pages the call has fetched from the buffer pool and not yet
\* unpinned (those of its first part when the call is an insert in flight).
World(txn) ==
    [tab |-> lock_table, ls |-> lock_set[txn], ws |-> write_set[txn],
     hdr |-> file_hdr, pages |-> pages, err |-> "OK",
     page_no |-> RM_NO_PAGE, rid |-> NoRid, record |-> 0, ix |-> index,
     pins |-> IF pc[txn] = "insert" THEN pinned[txn] ELSE {}]

Raise(W, e) == [W EXCEPT !.err = e]

\* LockManager::lock_internal as a step of a larger call; txn = NoTxn is the
\* null transaction of the undo context, for which it returns at once
lock_internal(W, txn, id, mode) ==
    IF W.err # "OK" \/ txn = NoTxn THEN W
    ELSE IF shrinking_gate(txn_state[txn]) THEN Raise(W, "LOCK_ON_SHRINKING")
    ELSE LET out == lock_queue(QueueOf(W.tab, id), txn, id.type, mode)
         IN [W EXCEPT !.tab = WithQueue(W.tab, id, out.rq),
                      !.ls = IF out.ins THEN lock_set_insert(@, id) ELSE @,
                      !.err = out.res]

lock_IX_on_table(W, txn) == lock_internal(W, txn, TableId, "IX")

\* get_record without its table lock
lock_IS_on_table_skipped(W, txn) == W

lock_IS_on_table(W, txn) == lock_internal(W, txn, TableId, "IS")

lock_exclusive_on_record(W, txn, rid) == lock_internal(W, txn, RecordLockId(rid), "X")

lock_shared_on_record(W, txn, rid) == lock_internal(W, txn, RecordLockId(rid), "S")

\* the gate that never records
should_record_write_never(txn) == FALSE

\* should_record_write(context): the context carries a GROWING transaction
should_record_write(txn) == txn # NoTxn /\ txn_state[txn] = "GROWING"

\* txn->append_write_record(...) behind the gate
append_write_record(W, txn, wr) ==
    IF should_record_write(txn) THEN [W EXCEPT !.ws = Append(@, wr)] ELSE W

\* Bitmap::first_bit(false, bitmap, num_records_per_page): the lowest clear
\* bit, num_records_per_page when every bit is set
first_bit(bitmap) ==
    IF \A i \in SlotNos : bitmap[i] THEN num_records_per_page
    ELSE CHOOSE i \in SlotNos : ~bitmap[i] /\ \A j \in SlotNos : j < i => bitmap[j]

\* buffer_pool_manager_->fetch_page / new_page: the page comes back pinned
pin_page(W, page_no) == [W EXCEPT !.pins = @ \cup {page_no}]

\* buffer_pool_manager_->unpin_page(page_id, is_dirty)
unpin_page(W, page_no) == [W EXCEPT !.pins = @ \ {page_no}]

\* fetch_page_handle(page_no): throws when the page is beyond the file
fetch_page_handle(W, page_no) ==
    IF W.err # "OK" THEN W
    ELSE IF page_no >= W.hdr.num_pages THEN Raise(W, "PageNotExistError")
    ELSE pin_page(W, page_no)

\* create_new_page_handle: the page appended to the file becomes the head of
\* the free list; page_no is the page of the handle returned
create_new_page_handle(W) ==
    LET page_no == W.hdr.num_pages
    IN [pin_page(W, page_no)
          EXCEPT !.pages[page_no] = [@ EXCEPT !.next_free_page_no = RM_NO_PAGE,
                                                     !.num_records = 0,
                                                     !.bitmap = [i \in SlotNos |-> FALSE]],
                 !.hdr = [num_pages |-> page_no + 1, first_free_page_no |-> page_no],
                 !.page_no = page_no]

\* create_page_handle: the head of the free list, or a new page
create_page_handle(W) ==
    IF W.err # "OK" THEN W
    ELSE IF W.hdr.first_free_page_no = RM_NO_PAGE THEN create_new_page_handle(W)
    ELSE [fetch_page_handle(W, W.hdr.first_free_page_no)
             EXCEPT !.page_no = W.hdr.first_free_page_no]

\* release_page_handle: the page becomes the head of the free list
release_page_handle(W, page_no) ==
    [W EXCEPT !.pages[page_no].next_free_page_no = W.hdr.first_free_page_no,
              !.hdr.first_free_page_no = page_no]

\* memcpy into the slot, Bitmap::set, num_records++
set_slot(pg, slot_no, buf) ==
    [pg EXCEPT !.slots[slot_no] = buf, !.bitmap[slot_no] = TRUE,
               !.num_records = @ + 1]

\* Bitmap::reset without num_records--
reset_slot_bit_only(pg, slot_no) == [pg EXCEPT !.bitmap[slot_no] = FALSE]

\* Bitmap::reset, num_records--
reset_slot(pg, slot_no) ==
    [pg EXCEPT !.bitmap[slot_no] = FALSE, !.num_records = @ - 1]

\* RmFileHandle::get_record(rid, context): IS on the table, S on the record,
\* then a copy of the bytes of the slot
get_record(W0, rid, txn) ==
    LET W1 == lock_shared_on_record(lock_IS_on_table(W0, txn), txn, rid)
        W == fetch_page_handle(W1, rid.page_no)
    IN IF W.err # "OK" THEN W
       ELSE IF ~W.pages[rid.page_no].bitmap[rid.slot_no]
       THEN Raise(W, "RecordNotFoundError")
       ELSE unpin_page([W EXCEPT !.record = W.pages[rid.page_no].slots[rid.slot_no]],
                       rid.page_no)

\* RmFileHandle::insert_record(buf, context)
insert_record(W0, buf, txn) ==
    LET W == create_page_handle(lock_IX_on_table(W0, txn))
    IN IF W.err # "OK" THEN W
       ELSE LET pg == W.pages[W.page_no]
                slot_no == first_bit(pg.bitmap)
            IN IF slot_no = num_records_per_page THEN Raise(W, "InternalError")
               ELSE LET pg1 == set_slot(pg, slot_no, buf)
                        rid == [page_no |-> W.page_no, slot_no |-> slot_no]
                        W2 == [W EXCEPT
                                 !.pages[W.page_no] = pg1,
                                 !.hdr.first_free_page_no =
                                     IF pg1.num_records = num_records_per_page
                                     THEN pg1.next_free_page_no ELSE @,
                                 !.rid = rid]
                    IN unpin_page(append_write_record(W2, txn,
                                      WriteRecord("INSERT_TUPLE", rid, 0)), W.page_no)

\* RmFileHandle::insert_record(rid, buf): the insert in place of the undo
insert_record_rid(W0, rid, buf) ==
    IF rid.page_no <= RM_FILE_HDR_PAGE \/ rid.page_no >= W0.hdr.num_pages
    THEN Raise(W0, "PageNotExistError")
    ELSE LET W == fetch_page_handle(W0, rid.page_no)
         IN IF rid.slot_no < 0 \/ rid.slot_no >= num_records_per_page
            THEN Raise(unpin_page(W, rid.page_no), "InternalError")
            ELSE IF W.pages[rid.page_no].bitmap[rid.slot_no]
            THEN Raise(unpin_page(W, rid.page_no), "InternalError")
            ELSE LET pg1 == set_slot(W.pages[rid.page_no], rid.slot_no, buf)
                 IN unpin_page(
                      [W EXCEPT
                         !.pages[rid.page_no] = pg1,
                         !.hdr.first_free_page_no =
                             IF pg1.num_records = num_records_per_page /\ @ = rid.page_no
                             THEN pg1.next_free_page_no ELSE @],
                      rid.page_no)

\* RmFileHandle::delete_record(rid, context)
delete_record(W0, rid, txn) ==
    LET W1 == lock_exclusive_on_record(lock_IX_on_table(W0, txn), txn, rid)
        W == fetch_page_handle(W1, rid.page_no)
    IN IF W.err # "OK" THEN W
       ELSE LET pg == W.pages[rid.page_no]
            IN IF ~pg.bitmap[rid.slot_no]
               THEN Raise(unpin_page(W, rid.page_no), "RecordNotFoundError")
               ELSE LET was_full == pg.num_records = num_records_per_page
                        W2 == append_write_record(W, txn,
                                  WriteRecord("DELETE_TUPLE", rid, pg.slots[rid.slot_no]))
                        W3 == [W2 EXCEPT !.pages[rid.page_no] = reset_slot(@, rid.slot_no)]
                    IN unpin_page(IF was_full THEN release_page_handle(W3, rid.page_no)
                                  ELSE W3, rid.page_no)

\* update_record with the memcpy into the slot before the check of the bitmap
update_record_copy_first(W0, rid, buf, txn) ==
    LET W1 == lock_exclusive_on_record(lock_IX_on_table(W0, txn), txn, rid)
        W == fetch_page_handle(W1, rid.page_no)
    IN IF W.err # "OK" THEN W
       ELSE LET pg == W.pages[rid.page_no]
                W2 == [W EXCEPT !.pages[rid.page_no].slots[rid.slot_no] = buf]
            IN IF ~pg.bitmap[rid.slot_no]
               THEN Raise(unpin_page(W2, rid.page_no), "RecordNotFoundError")
               ELSE unpin_page(append_write_record(W2, txn,
                                  WriteRecord("UPDATE_TUPLE", rid, pg.slots[rid.slot_no])),
                               rid.page_no)

\* RmFileHandle::update_record(rid, buf, context)
update_record(W0, rid, buf, txn) ==
    LET W1 == lock_exclusive_on_record(lock_IX_on_table(W0, txn), txn, rid)
        W == fetch_page_handle(W1, rid.page_no)
    IN IF W.err # "OK" THEN W
       ELSE LET pg == W.pages[rid.page_no]
            IN IF ~pg.bitmap[rid.slot_no]
               THEN Raise(unpin_page(W, rid.page_no), "RecordNotFoundError")
               ELSE LET W2 == append_write_record(W, txn,
                                  WriteRecord("UPDATE_TUPLE", rid, pg.slots[rid.slot_no]))
                    IN unpin_page([W2 EXCEPT !.pages[rid.page_no].slots[rid.slot_no] = buf],
                                  rid.page_no)

\* the write record a forward iterator would reach
undo_record_forward(ws, it) == ws[Len(ws) - it + 1]

\* the write record the reverse iterator of abort is at when it write records
\* are still to be undone
undo_record(ws, it) == ws[it]

\* the switch of abort on the type of the write record; the undo context
\* carries no transaction, insert_record(rid, buf) takes no context
undo(W, wr) ==
    IF wr.wtype = "INSERT_TUPLE" THEN delete_record(W, wr.rid, NoTxn)
    ELSE IF wr.wtype = "DELETE_TUPLE" THEN insert_record_rid(W, wr.rid, wr.record)
    ELSE update_record(W, wr.rid, wr.record, NoTxn)

\* what a call of txn leaves behind
Apply(W, txn) ==
    /\ lock_table' = W.tab
    /\ lock_set' = [lock_set EXCEPT ![txn] = W.ls]
    /\ write_set' = [write_set EXCEPT ![txn] = W.ws]
    /\ file_hdr' = W.hdr
    /\ pages' = W.pages
    /\ pinned' = [pinned EXCEPT ![txn] = W.pins]

\* a live transaction that has made fewer than cap write calls
CanWrite(txn, cap) == CanCall(txn) /\ Len(write_set[txn]) < cap

\* insert_record(buf, context) called for txn
Insert(txn, cap) ==
    /\ CanWrite(txn, cap)
    /\ file_hdr.first_free_page_no = RM_NO_PAGE => file_hdr.num_pages <= MaxPages
    /\ Apply(insert_record(World(txn), Buf(txn), txn), txn)
    /\ UNCHANGED <<txn_state, txn_map, next_txn_id, pc, to_release, released, last,
                   new_txn, opened, ex_vars, undo_it>>

\* the rids a caller passes come from a scan or an index: they name a slot
\* of a page of the file
KnownRid(rid) == rid.page_no < file_hdr.num_pages

\* delete_record(rid, context) called for txn
Delete(txn, rid, cap) ==
    /\ CanWrite(txn, cap)
    /\ KnownRid(rid)
    /\ Apply(delete_record(World(txn), rid, txn), txn)
    /\ UNCHANGED <<txn_state, txn_map, next_txn_id, pc, to_release, released, last,
                   new_txn, opened, ex_vars, undo_it>>

\* update_record(rid, buf, context) called for txn
Update(txn, rid, cap) ==
    /\ CanWrite(txn, cap)
    /\ KnownRid(rid)
    /\ Apply(update_record(World(txn), rid, Buf(txn), txn), txn)
    /\ UNCHANGED <<txn_state, txn_map, next_txn_id, pc, to_release, released, last,
                   new_txn, opened, ex_vars, undo_it>>

\* abort: one iteration of the undo loop. An exception of the record manager
\* leaves abort at once: the transaction stays SHRINKING with its locks, its
\* write set and its txn_map entry (pc "raised").
UndoStep(txn) ==
    /\ txn \in txn_map
    /\ pc[txn] = "abort"
    /\ undo_it[txn] > 0
    /\ LET W == undo(World(txn), undo_record(write_set[txn], undo_it[txn]))
       IN /\ Apply(W, txn)
          /\ IF W.err = "OK"
             THEN /\ undo_it' = [undo_it EXCEPT ![txn] = @ - 1]
                  /\ pc' = pc
             ELSE /\ undo_it' = undo_it
                  /\ pc' = [pc EXCEPT ![txn] = "raised"]
    /\ UNCHANGED <<txn_state, txn_map, next_txn_id, to_release, released, last,
                   new_txn, opened, ex_vars>>

\* release_all_locks(txn) as a whole: unlock(txn, id) for every id of the lock
\* set; the lock table afterwards
release_all_locks(tab, txn, ls) ==
    LET ids == ls \cap DOMAIN tab
        keep == {id \in DOMAIN tab :
                    id \notin ids \/ erase_requests(tab[id], txn) # <<>>}
    IN [id \in keep |-> IF id \in ids THEN erase_requests(tab[id], txn) ELSE tab[id]]

\* the rest of commit / abort in one step: release_all_locks, cleanup_write_set,
\* the final state, the erase from txn_map
Finish(txn, which) ==
    /\ lock_table' = release_all_locks(lock_table, txn, lock_set[txn])
    /\ lock_set' = [lock_set EXCEPT ![txn] = {}]
    /\ write_set' = [write_set EXCEPT ![txn] = <<>>]
    /\ txn_state' = [txn_state EXCEPT ![txn] = final_state(which)]
    /\ txn_map' = txn_map \ {txn}
    /\ to_release' = [to_release EXCEPT ![txn] = {}]
    /\ released' = [released EXCEPT ![txn] = TRUE]
    /\ UNCHANGED <<next_txn_id, last, new_txn, opened, ex_vars, file_hdr, pages, undo_it,
                   pinned>>

\* TransactionManager::commit(txn) in one step
Commit(txn) ==
    /\ CanCall(txn)
    /\ Finish(txn, "commit")
    /\ pc' = pc

\* TransactionManager::abort(txn) after the undo loop, in one step
AbortFinish(txn) ==
    /\ txn \in txn_map
    /\ pc[txn] = "abort"
    /\ undo_it[txn] = 0
    /\ Finish(txn, "abort")
    /\ pc' = [pc EXCEPT ![txn] = "idle"]

\* no table file open: the header of an empty file, no write records
NoFile ==
    /\ file_hdr = [num_pages |-> 1, first_free_page_no |-> RM_NO_PAGE]
    /\ pages = [p \in PageNos |-> BlankPage]
    /\ write_set = [t \in Txns |-> <<>>]
    /\ undo_it = [t \in Txns |-> 0]
    /\ opened = <<>>

\* the records of the file: the bytes of every occupied slot
NoRecord == -1

Contents(hdr, pgs) ==
    [rid \in Rids |-> IF rid.page_no < hdr.num_pages /\ pgs[rid.page_no].bitmap[rid.slot_no]
                      THEN pgs[rid.page_no].slots[rid.slot_no] ELSE NoRecord]

popcount(bitmap) == Cardinality({i \in SlotNos : bitmap[i]})

\* the position of page p in the list order, 0 if it is not on it
PosIn(order, p) == IF \E i \in DOMAIN order : order[i] = p
                   THEN CHOOSE i \in DOMAIN order : order[i] = p ELSE 0

\* a table file as committed transactions left it: np data pages with the
\* occupancy bm, every record holding the bytes 0, the pages that are not
\* full linked in the given order
OpenedFile(np, bm, order) ==
    [hdr |-> [num_pages |-> np + 1,
              first_free_page_no |-> IF Len(order) = 0 THEN RM_NO_PAGE ELSE order[1]],
     pages |-> [p \in PageNos |->
                  IF p > np THEN BlankPage
                  ELSE [num_records |-> popcount(bm[p]),
                        next_free_page_no |->
                            IF PosIn(order, p) \in 1 .. (Len(order) - 1)
                            THEN order[PosIn(order, p) + 1] ELSE RM_NO_PAGE,
                        bitmap |-> bm[p],
                        slots |-> [i \in SlotNos |-> 0]]]]

\* the bitmap with exactly the slots of S occupied
Occupied(S) == [i \in SlotNos |-> i \in S]

\* the files the record manager is opened on: an empty file; one page with
\* its first slot occupied; two pages that are not full, the second one the
\* head of the free list; a first page with only its first slot free before
\* full pages; full pages only
OpenedFiles ==
    {OpenedFile(0, <<>>, <<>>),
     OpenedFile(1, <<Occupied({0})>>, <<1>>),
     OpenedFile(2, <<Occupied({0}), Occupied({1})>>, <<2, 1>>),
     OpenedFile(MaxPages,
                [p \in 1 .. MaxPages |->
                    IF p = 1 THEN Occupied(SlotNos \ {0}) ELSE Occupied(SlotNos)],
                <<1>>),
     OpenedFile(MaxPages, [p \in 1 .. MaxPages |-> Occupied(SlotNos)], <<>>)}

\* the columns of the table
Cols == {"a", "b"}

\* the columns of a column list
ColsOf(cols) == {cols[i] : i \in 1 .. Len(cols)}

\* the flags of the columns when the indexes of the table are those of cat
IndexedCols(cat) == [c \in Cols |-> \E cols \in cat : c \in ColsOf(cols)]

\* a table without indexes
NoIndex ==
    /\ catalog = {}
    /\ index = <<>>
    /\ col_index = IndexedCols({})
    /\ threw = [t \in Txns |-> FALSE]

\* no call of the record manager in flight, no executor begun
\* an IndexScanExecutor not built: no index, no conditions, scan_ null
NoIxScan ==
    [at |-> "none", cols |-> <<>>, conds |-> <<>>, open |-> FALSE, rng |-> <<>>,
     pos |-> 1, rid |-> NoRid]

\* a NestedLoopJoinExecutor not built
NoJoin == [at |-> "none", conds |-> {}, l |-> NoRid, out |-> <<>>]

\* no index scan and no join built
NoReaders ==
    /\ ixscan = [t \in Txns |-> NoIxScan]
    /\ join = [t \in Txns |-> NoJoin]

\* no page of the file is pinned
NoPins == pinned = [t \in Txns |-> {}]

NoExec ==
    /\ NoPins
    /\ ins = [t \in Txns |-> NoRid]
    /\ scan = [t \in Txns |-> [at |-> "none", rid |-> NoRid]]
    /\ NoIndex
    /\ NoReaders

\* --------------------------------------------------------- specification
Init ==
    /\ lock_table = <<>>
    /\ txn_state = [t \in Txns |-> "NONE"]
    /\ lock_set = [t \in Txns |-> {}]
    /\ txn_map = {}
    /\ next_txn_id = 0
    /\ pc = [t \in Txns |-> "idle"]
    /\ to_release = [t \in Txns |-> {}]
    /\ released = [t \in Txns |-> FALSE]
    /\ last = NoCall
    /\ new_txn = {}
    /\ NoFile
    /\ NoExec

Next ==
    \/ BeginNew
    \/ \E txn \in Txns : BeginExisting(txn)
    \/ \E txn \in Txns, id \in Ids, mode \in Modes : LockInternal(txn, id, mode)
    \/ \E txn \in Txns, id \in Ids : Unlock(txn, id)
    \/ \E txn \in Txns : CommitStart(txn)
    \/ \E txn \in Txns : AbortStart(txn)
    \/ \E txn \in Txns, id \in Ids : ReleaseStep(txn, id)
    \/ \E txn \in Txns : FinishEnd(txn)

\* every interleaving of the calls; the calls themselves are not recorded
Spec == Init /\ [][Next]_vars

\* the same program with every call and its result recorded in last. A call
\* that repeats the previous call with the same result and changes nothing is
\* not a step; the same call from the same state is a step after a call that
\* only changes last: begin(txn) of a GROWING transaction, or a refused
\* lock_internal of a SHRINKING one.
InitCalls ==
    /\ lock_table = <<>>
    /\ txn_state = [t \in Txns |-> "NONE"]
    /\ lock_set = [t \in Txns |-> {}]
    /\ txn_map = {}
    /\ next_txn_id = 0
    /\ pc = [t \in Txns |-> "idle"]
    /\ to_release = [t \in Txns |-> {}]
    /\ released = [t \in Txns |-> FALSE]
    /\ last = FirstCall
    /\ new_txn = {}
    /\ NoFile
    /\ NoExec

SpecCalls == InitCalls /\ [][Next]_vars

\* the lock manager and the transaction manager with begin(nullptr) running
\* on several threads at once
NextBegin ==
    \/ BeginAlloc
    \/ \E txn \in Txns : BeginRegister(txn)
    \/ \E txn \in Txns : BeginExisting(txn)
    \/ \E txn \in Txns, id \in Ids, mode \in Modes : LockInternal(txn, id, mode)
    \/ \E txn \in Txns, id \in Ids : Unlock(txn, id)
    \/ \E txn \in Txns : CommitStart(txn)
    \/ \E txn \in Txns : AbortStart(txn)
    \/ \E txn \in Txns, id \in Ids : ReleaseStep(txn, id)
    \/ \E txn \in Txns : FinishEnd(txn)

SpecBegin == Init /\ [][NextBegin]_vars

\* the record manager under transactions: a table file opened on any of
\* OpenedFiles, transactions that insert, delete and update, commit and abort
InitRm ==
    /\ lock_table = <<>>
    /\ txn_state = [t \in Txns |-> "NONE"]
    /\ lock_set = [t \in Txns |-> {}]
    /\ txn_map = {}
    /\ next_txn_id = 0
    /\ pc = [t \in Txns |-> "idle"]
    /\ to_release = [t \in Txns |-> {}]
    /\ released = [t \in Txns |-> FALSE]
    /\ last = NoCall
    /\ new_txn = {}
    /\ \E f \in OpenedFiles : file_hdr = f.hdr /\ pages = f.pages
    /\ write_set = [t \in Txns |-> <<>>]
    /\ undo_it = [t \in Txns |-> 0]
    /\ opened = <<>>
    /\ NoExec

NextRm ==
    \/ BeginNew
    \/ \E txn \in Txns : Insert(txn, MaxWrites)
    \/ \E txn \in Txns, rid \in Rids : Delete(txn, rid, MaxWrites)
    \/ \E txn \in Txns, rid \in Rids : Update(txn, rid, MaxWrites)
    \/ \E txn \in Txns : Commit(txn)
    \/ \E txn \in Txns : AbortStart(txn)
    \/ \E txn \in Txns : UndoStep(txn)
    \/ \E txn \in Txns : AbortFinish(txn)

SpecRm == InitRm /\ [][NextRm]_vars

\* the record manager under one writing transaction: the first transaction
\* inserts, deletes and updates, then commits or aborts; a transaction may
\* also unlock on its own and be begun again; the records the file was opened
\* with are remembered in opened
InitUndo ==
    /\ lock_table = <<>>
    /\ txn_state = [t \in Txns |-> "NONE"]
    /\ lock_set = [t \in Txns |-> {}]
    /\ txn_map = {}
    /\ next_txn_id = 0
    /\ pc = [t \in Txns |-> "idle"]
    /\ to_release = [t \in Txns |-> {}]
    /\ released = [t \in Txns |-> FALSE]
    /\ last = NoCall
    /\ new_txn = {}
    /\ \E f \in OpenedFiles :
          file_hdr = f.hdr /\ pages = f.pages /\ opened = Contents(f.hdr, f.pages)
    /\ write_set = [t \in Txns |-> <<>>]
    /\ undo_it = [t \in Txns |-> 0]
    /\ NoExec

\* the transaction that began first
First(txn) == txn = 0

NextUndo ==
    \/ BeginNew
    \/ \E txn \in Txns : BeginExisting(txn)
    \/ \E txn \in Txns, id \in LockIds : Unlock(txn, id)
    \/ \E txn \in Txns : First(txn) /\ Insert(txn, MaxWritesAlone)
    \/ \E txn \in Txns, rid \in Rids : First(txn) /\ Delete(txn, rid, MaxWritesAlone)
    \/ \E txn \in Txns, rid \in Rids : First(txn) /\ Update(txn, rid, MaxWritesAlone)
    \/ \E txn \in Txns : Commit(txn)
    \/ \E txn \in Txns : AbortStart(txn)
    \/ \E txn \in Txns : UndoStep(txn)
    \/ \E txn \in Txns : AbortFinish(txn)

SpecUndo == InitUndo /\ [][NextUndo]_vars

\* ------------------------------------------- insert_record of two threads
\* RmFileHandle::insert_record takes no latch: between the lines of one call
\* another thread's call may run. The call is cut where it has chosen its
\* slot: page_handle and slot_no are locals, everything after reads the page
\* and the file header through them.

\* insert_record(buf, context) up to Bitmap::first_bit: IX on the table, the
\* page handle, the slot chosen; rid holds the page and the slot
insert_record_find(W0, txn) ==
    LET W == create_page_handle(lock_IX_on_table(W0, txn))
    IN IF W.err # "OK" THEN W
       ELSE [W EXCEPT !.rid = [page_no |-> W.page_no,
                               slot_no |-> first_bit(W.pages[W.page_no].bitmap)]]

\* insert_record(buf, context) from the check of slot_no on, on the page and
\* the slot found before
insert_record_store(W, found, buf, txn) ==
    IF found.slot_no = num_records_per_page THEN Raise(W, "InternalError")
    ELSE LET pg1 == set_slot(W.pages[found.page_no], found.slot_no, buf)
             W2 == [W EXCEPT
                      !.pages[found.page_no] = pg1,
                      !.hdr.first_free_page_no =
                          IF pg1.num_records = num_records_per_page
                          THEN pg1.next_free_page_no ELSE @,
                      !.rid = found]
         IN unpin_page(append_write_record(W2, txn, WriteRecord("INSERT_TUPLE", found, 0)),
                       found.page_no)

\* a thread runs insert_record for txn as far as the choice of the slot
InsertFind(txn, cap) ==
    /\ CanWrite(txn, cap)
    /\ file_hdr.first_free_page_no = RM_NO_PAGE => file_hdr.num_pages <= MaxPages
    /\ LET W == insert_record_find(World(txn), txn)
       IN /\ Apply(W, txn)
          /\ IF W.err = "OK"
             THEN /\ ins' = [ins EXCEPT ![txn] = W.rid]
                  /\ pc' = [pc EXCEPT ![txn] = "insert"]
             ELSE UNCHANGED <<ins, pc>>
    /\ UNCHANGED <<txn_state, txn_map, next_txn_id, to_release, released, last,
                   new_txn, opened, undo_it, scan, dml_vars, rd_vars>>

\* the thread runs the rest of the call
InsertStore(txn) ==
    /\ txn \in txn_map
    /\ pc[txn] = "insert"
    /\ Apply(insert_record_store(World(txn), ins[txn], Buf(txn), txn), txn)
    /\ ins' = [ins EXCEPT ![txn] = NoRid]
    /\ pc' = [pc EXCEPT ![txn] = "idle"]
    /\ UNCHANGED <<txn_state, txn_map, next_txn_id, to_release, released, last,
                   new_txn, opened, undo_it, scan, dml_vars, rd_vars>>

\* transactions on their own threads insert into one table file, commit and
\* abort
NextIns ==
    \/ BeginNew
    \/ \E txn \in Txns : InsertFind(txn, MaxWrites)
    \/ \E txn \in Txns : InsertStore(txn)
    \/ \E txn \in Txns : Commit(txn)
    \/ \E txn \in Txns : AbortStart(txn)
    \/ \E txn \in Txns : UndoStep(txn)
    \/ \E txn \in Txns : AbortFinish(txn)

SpecIns == InitRm /\ [][NextIns]_vars

\* ------------------------------------------------- reads beside the writes
\* calls of insert_record / delete_record / update_record a transaction
\* makes beside the reads of others
MaxWritesRead == 1

\* get_record(rid, context) called for txn
Get(txn, rid) ==
    /\ CanCall(txn)
    /\ KnownRid(rid)
    /\ Apply(get_record(World(txn), rid, txn), txn)
    /\ UNCHANGED <<txn_state, txn_map, next_txn_id, pc, to_release, released, last,
                   new_txn, opened, ex_vars, undo_it>>

\* transactions that read and write the records of one table file, commit
\* and abort
NextRead ==
    \/ BeginNew
    \/ \E txn \in Txns, rid \in Rids : Get(txn, rid)
    \/ \E txn \in Txns : Insert(txn, MaxWritesRead)
    \/ \E txn \in Txns, rid \in Rids : Delete(txn, rid, MaxWritesRead)
    \/ \E txn \in Txns, rid \in Rids : Update(txn, rid, MaxWritesRead)
    \/ \E txn \in Txns : Commit(txn)
    \/ \E txn \in Txns : AbortStart(txn)
    \/ \E txn \in Txns : UndoStep(txn)
    \/ \E txn \in Txns : AbortFinish(txn)

\* the table file has one data page, with a record in its first slot
InitRead == InitRm /\ file_hdr.num_pages = 2

SpecRead == InitRead /\ [][NextRead]_vars

\* --------------------------------------------------------- SeqScanExecutor
\* RmScan: the rids of the file in page and slot order; the rid after rid
RidAfter(rid) ==
    IF rid.slot_no + 1 < num_records_per_page
    THEN [page_no |-> rid.page_no, slot_no |-> rid.slot_no + 1]
    ELSE [page_no |-> rid.page_no + 1, slot_no |-> 0]

\* RmScan(fh_): the scan stands on the first slot of the first data page
FirstRid == [page_no |-> RM_FILE_HDR_PAGE + 1, slot_no |-> 0]

\* scan_->is_end(): the scan has left the pages of the file
ScanIsEnd(W, rid) == rid.page_no >= W.hdr.num_pages

\* fh_->is_record(rid): the bit of the slot, read without a lock
is_record(W, rid) == W.pages[rid.page_no].bitmap[rid.slot_no]

\* the loop of beginTuple and nextTuple from the rid the scan stands on: the
\* first rid that is a record and satisfies the conditions (none here, but
\* satisfy reads the record through get_record and so takes IS and S); rid is
\* where the scan stops, NoRid at the end. A get_record that throws ends it.
RECURSIVE SeqScanLoop(_, _, _)
SeqScanLoop(W, txn, rid) ==
    IF W.err # "OK" THEN W
    ELSE IF ScanIsEnd(W, rid) THEN [W EXCEPT !.rid = NoRid]
    ELSE IF is_record(W, rid)
         THEN LET W1 == get_record(W, rid, txn)
              IN IF W1.err # "OK" THEN W1 ELSE [W1 EXCEPT !.rid = rid]
         ELSE SeqScanLoop(W, txn, RidAfter(rid))

\* what beginTuple / nextTuple leave in the executor
ScanAt(W) ==
    IF W.err # "OK" THEN [at |-> "raised", rid |-> NoRid]
    ELSE IF W.rid = NoRid THEN [at |-> "end", rid |-> NoRid]
    ELSE [at |-> "on", rid |-> W.rid]

\* SeqScanExecutor::beginTuple
SeqScanBegin(txn) ==
    /\ Caller(txn)
    /\ scan[txn].at = "none"
    /\ LET W == SeqScanLoop(World(txn), txn, FirstRid)
       IN Apply(W, txn) /\ scan' = [scan EXCEPT ![txn] = ScanAt(W)]
    /\ UNCHANGED <<txn_state, txn_map, next_txn_id, pc, to_release, released, last,
                   new_txn, opened, undo_it, ins, dml_vars, rd_vars>>

\* SeqScanExecutor::nextTuple
SeqScanNext(txn) ==
    /\ Caller(txn)
    /\ scan[txn].at = "on"
    /\ LET W == SeqScanLoop(World(txn), txn, RidAfter(scan[txn].rid))
       IN Apply(W, txn) /\ scan' = [scan EXCEPT ![txn] = ScanAt(W)]
    /\ UNCHANGED <<txn_state, txn_map, next_txn_id, pc, to_release, released, last,
                   new_txn, opened, undo_it, ins, dml_vars, rd_vars>>

\* SeqScanExecutor::Next: the record the scan stands on
SeqScanRecord(txn) ==
    /\ Caller(txn)
    /\ scan[txn].at = "on"
    /\ LET W == get_record(World(txn), scan[txn].rid, txn)
       IN /\ Apply(W, txn)
          /\ scan' = IF W.err = "OK" THEN scan
                     ELSE [scan EXCEPT ![txn] = [at |-> "raised", rid |-> NoRid]]
    /\ UNCHANGED <<txn_state, txn_map, next_txn_id, pc, to_release, released, last,
                   new_txn, opened, undo_it, ins, dml_vars, rd_vars>>

\* calls of insert_record / delete_record / update_record a transaction
\* makes beside the scans of others
MaxWritesScan == 1

\* transactions that scan the table file and write its records, commit and
\* abort
NextScan ==
    \/ BeginNew
    \/ \E txn \in Txns : SeqScanBegin(txn)
    \/ \E txn \in Txns : SeqScanNext(txn)
    \/ \E txn \in Txns : SeqScanRecord(txn)
    \/ \E txn \in Txns : Insert(txn, MaxWritesScan)
    \/ \E txn \in Txns, rid \in Rids : Delete(txn, rid, MaxWritesScan)
    \/ \E txn \in Txns, rid \in Rids : Update(txn, rid, MaxWritesScan)
    \/ \E txn \in Txns : Commit(txn)
    \/ \E txn \in Txns : AbortStart(txn)
    \/ \E txn \in Txns : UndoStep(txn)
    \/ \E txn \in Txns : AbortFinish(txn)

SpecScan == InitRm /\ [][NextScan]_vars

\* ------------------------------------------------------ records and indexes
\* A record of the table has two INT columns, a and b, each holding a value
\* below NumVals; its bytes are the two values one after the other.
NumVals == 2
Vals == 0 .. (NumVals - 1)
Rec(a, b) == a * NumVals + b
Recs == {Rec(a, b) : a \in Vals, b \in Vals}

\* rec->data + col.offset: the value of column c in the bytes rec
Col(rec, c) == IF c = "a" THEN rec \div NumVals ELSE rec % NumVals

\* the indexes a table can have, each named by its column list
AllIndexes == {<<"a">>, <<"b">>, <<"a", "b">>}

\* the composite key of a record in the index on cols: the column segments
\* copied one after the other in index-column order
Key(rec, cols) == [i \in 1 .. Len(cols) |-> Col(rec, cols[i])]

\* the place of a rid in the file, page by page
RidNo(rid) == RecordLockId(rid).rid

\* keys compare column segment by column segment, numerically
RECURSIVE KeyLess(_, _)
KeyLess(k1, k2) ==
    IF k1 = <<>> THEN FALSE
    ELSE Head(k1) < Head(k2) \/ (Head(k1) = Head(k2) /\ KeyLess(Tail(k1), Tail(k2)))

\* the leaf order of two entries; entries of one key stand in rid order
EntryLess(e, f) ==
    KeyLess(e.key, f.key) \/ (e.key = f.key /\ RidNo(e.rid) < RidNo(f.rid))

\* the entries of an index in leaf order
RECURSIVE LeafOrder(_)
LeafOrder(entries) ==
    IF entries = {} THEN <<>>
    ELSE LET e == CHOOSE x \in entries : \A y \in entries \ {x} : EntryLess(x, y)
         IN <<e>> \o LeafOrder(entries \ {e})

\* IxScan(ih, lower, upper): the rids of the entries of the range, in leaf order
ScanRids(range) == [i \in 1 .. Cardinality(range) |-> LeafOrder(range)[i].rid]

\* [lower_bound(key), upper_bound(key)): the entries that hold the key
KeyRange(entries, key) == {e \in entries : e.key = key}

\* insert_entry(key, rid, txn): duplicate keys are permitted, the rid tells the
\* entries of one key apart
insert_entry(entries, key, rid) == entries \cup {[key |-> key, rid |-> rid]}

\* which of the entries that hold one key delete_entry finds first
Firsts == {"low", "high"}

\* delete_entry(key, txn): the call names no rid; it removes one entry that
\* holds the key, the one with the lowest or the one with the highest rid
delete_entry(entries, key, first) ==
    LET hit == KeyRange(entries, key)
    IN IF hit = {} THEN entries
       ELSE entries \ {CHOOSE e \in hit : \A f \in hit :
                          IF first = "low" THEN RidNo(e.rid) <= RidNo(f.rid)
                          ELSE RidNo(e.rid) >= RidNo(f.rid)}

\* the entries an index on cols holds when it agrees with the heap: one entry
\* (key(rec), rid) for the record at each occupied rid
HeapEntries(hdr, pgs, cols) ==
    {[key |-> Key(pgs[rid.page_no].slots[rid.slot_no], cols), rid |-> rid] :
        rid \in {r \in Rids : r.page_no < hdr.num_pages /\ pgs[r.page_no].bitmap[r.slot_no]}}

\* ------------------------------------------- DeleteExecutor, UpdateExecutor
\* the loop over the indexes of the table that composes the key of the
\* record in each and deletes its entry
delete_entries(ix, which, rec, first) ==
    [cols \in DOMAIN ix |->
        IF cols \in which THEN delete_entry(ix[cols], Key(rec, cols), first) ELSE ix[cols]]

\* the loop over the indexes that composes the key of the record in each and
\* inserts the entry (key, rid)
insert_entries(ix, which, rec, rid) ==
    [cols \in DOMAIN ix |->
        IF cols \in which THEN insert_entry(ix[cols], Key(rec, cols), rid) ELSE ix[cols]]

\* DeleteExecutor::Next: for each rid of the list, get_record, delete_entry
\* in every index of the table, delete_record; an exception ends the run
RECURSIVE DeleteNext(_, _, _, _)
DeleteNext(W, txn, rids, first) ==
    IF W.err # "OK" \/ rids = <<>> THEN W
    ELSE LET W1 == get_record(W, Head(rids), txn)
         IN IF W1.err # "OK" THEN W1
            ELSE LET W2 == [W1 EXCEPT !.ix = delete_entries(@, DOMAIN @, W1.record, first)]
                 IN DeleteNext(delete_record(W2, Head(rids), txn), txn, Tail(rids), first)

\* the set-clauses of an Update, one per column named: the column and its value
SetClauses == UNION {[cs -> Vals] : cs \in (SUBSET Cols) \ {{}}}

\* the set-clauses applied in place on the record buffer
apply_set_clauses(rec, sc) ==
    Rec(IF "a" \in DOMAIN sc THEN sc["a"] ELSE Col(rec, "a"),
        IF "b" \in DOMAIN sc THEN sc["b"] ELSE Col(rec, "b"))

\* affected_indexes: the indexes with a column named in a set-clause
affected_indexes(ix, sc) ==
    {cols \in DOMAIN ix : \E i \in 1 .. Len(cols) : cols[i] \in DOMAIN sc}

\* UpdateExecutor::Next: for each rid of the list, get_record, delete_entry of
\* the old key in the affected indexes, the set-clauses applied to the buffer,
\* update_record, insert_entry of the new key in the affected indexes
RECURSIVE UpdateNext(_, _, _, _, _)
UpdateNext(W, txn, rids, sc, first) ==
    IF W.err # "OK" \/ rids = <<>> THEN W
    ELSE LET rid == Head(rids)
             W1 == get_record(W, rid, txn)
         IN IF W1.err # "OK" THEN W1
            ELSE LET affected == affected_indexes(W1.ix, sc)
                     W2 == [W1 EXCEPT !.ix = delete_entries(@, affected, W1.record, first)]
                     rec == apply_set_clauses(W1.record, sc)
                     W3 == update_record(W2, rid, rec, txn)
                 IN IF W3.err # "OK" THEN W3
                    ELSE UpdateNext([W3 EXCEPT !.ix = insert_entries(@, affected, rec, rid)],
                                    txn, Tail(rids), sc, first)

\* the longest rid list handed to an operator
MaxRids == 2

\* the rid lists a planner hands to Delete and Update: rids of the pages of
\* the file, each at most once
RidLists ==
    {<<>>} \cup {<<r>> : r \in {x \in Rids : KnownRid(x)}}
           \cup {l \in {<<r, q>> : r \in Rids, q \in Rids} :
                    KnownRid(l[1]) /\ KnownRid(l[2]) /\ l[1] # l[2]}

\* what an operator run of txn leaves behind
ApplyRun(W, txn) ==
    /\ Apply(W, txn)
    /\ index' = W.ix
    /\ threw' = [threw EXCEPT ![txn] = @ \/ W.err # "OK"]

\* a Delete operator built on a rid list and run by txn
DeleteRun(txn, rids, first) ==
    /\ Caller(txn)
    /\ Len(write_set[txn]) + Len(rids) <= MaxRids
    /\ ApplyRun(DeleteNext(World(txn), txn, rids, first), txn)
    /\ UNCHANGED <<txn_state, txn_map, next_txn_id, pc, to_release, released, last,
                   new_txn, opened, undo_it, ins, scan, catalog, col_index,
                   rd_vars>>

\* an Update operator built on a rid list and set-clauses and run by txn
UpdateRun(txn, rids, sc, first) ==
    /\ Caller(txn)
    /\ Len(write_set[txn]) + Len(rids) <= MaxRids
    /\ ApplyRun(UpdateNext(World(txn), txn, rids, sc, first), txn)
    /\ UNCHANGED <<txn_state, txn_map, next_txn_id, pc, to_release, released, last,
                   new_txn, opened, undo_it, ins, scan, catalog, col_index,
                   rd_vars>>

\* a table file of one full data page holding the records r0 and r1
TableFile(r0, r1) ==
    LET f == OpenedFile(1, <<Occupied(SlotNos)>>, <<>>)
    IN [hdr |-> f.hdr,
        pages |-> [f.pages EXCEPT ![1].slots = [i \in SlotNos |-> IF i = 0 THEN r0 ELSE r1]]]

\* a table of two records with any set of indexes, each index agreeing with
\* the heap; no transaction begun
InitDml ==
    /\ lock_table = <<>>
    /\ txn_state = [t \in Txns |-> "NONE"]
    /\ lock_set = [t \in Txns |-> {}]
    /\ txn_map = {}
    /\ next_txn_id = 0
    /\ pc = [t \in Txns |-> "idle"]
    /\ to_release = [t \in Txns |-> {}]
    /\ released = [t \in Txns |-> FALSE]
    /\ last = NoCall
    /\ new_txn = {}
    /\ \E r0 \in Recs, r1 \in Recs :
          /\ file_hdr = TableFile(r0, r1).hdr
          /\ pages = TableFile(r0, r1).pages
    /\ write_set = [t \in Txns |-> <<>>]
    /\ undo_it = [t \in Txns |-> 0]
    /\ opened = Contents(file_hdr, pages)
    /\ ins = [t \in Txns |-> NoRid]
    /\ scan = [t \in Txns |-> [at |-> "none", rid |-> NoRid]]
    /\ catalog \in SUBSET AllIndexes
    /\ index = [cols \in catalog |-> HeapEntries(file_hdr, pages, cols)]
    /\ col_index = IndexedCols(catalog)
    /\ threw = [t \in Txns |-> FALSE]
    /\ NoPins
    /\ NoReaders

\* one transaction runs Delete and Update operators, then commits or aborts
NextDml ==
    \/ next_txn_id = 0 /\ BeginNew
    \/ \E txn \in Txns, rids \in RidLists, first \in Firsts :
          First(txn) /\ DeleteRun(txn, rids, first)
    \/ \E txn \in Txns, rids \in RidLists, sc \in SetClauses, first \in Firsts :
          First(txn) /\ UpdateRun(txn, rids, sc, first)
    \/ \E txn \in Txns : Commit(txn)
    \/ \E txn \in Txns : AbortStart(txn)
    \/ \E txn \in Txns : UndoStep(txn)
    \/ \E txn \in Txns : AbortFinish(txn)

SpecDml == InitDml /\ [][NextDml]_vars

\* ------------------------------------------------------ IndexScanExecutor
\* fed_conds_ of an index scan: equality conditions column = value, at most
\* one per column
Conds == UNION {[cs -> Vals] : cs \in SUBSET Cols}

\* satisfy: the record meets every condition
Satisfy(rec, conds) == \A c \in DOMAIN conds : Col(rec, c) = conds[c]

\* is_end(): scan_ is null or has left its range
IxIsEnd(st) == ~st.open \/ st.pos > Len(st.rng)

\* the loop of beginTuple and nextTuple from the entry the scan stands on: the
\* first rid that is a record and satisfies the conditions becomes rid_;
\* satisfy reads the record through get_record. A get_record that throws
\* ends the loop.
RECURSIVE IndexScanLoop(_, _, _)
RECURSIVE IndexScanTest(_, _, _)
IndexScanLoop(W, txn, st) ==
    IF W.err # "OK" \/ IxIsEnd(st) THEN [w |-> W, st |-> st]
    ELSE IF is_record(W, st.rng[st.pos])
         THEN IndexScanTest(get_record(W, st.rng[st.pos], txn), txn, st)
         ELSE IndexScanLoop(W, txn, [st EXCEPT !.pos = @ + 1])

\* satisfy(r) once get_record has returned or thrown: W is what it left
IndexScanTest(W, txn, st) ==
    IF W.err # "OK" THEN [w |-> W, st |-> st]
    ELSE IF Satisfy(W.record, st.conds)
         THEN [w |-> W, st |-> [st EXCEPT !.rid = st.rng[st.pos]]]
         ELSE IndexScanLoop(W, txn, [st EXCEPT !.pos = @ + 1])

\* every column of the index has an equality condition with a value
KeyBound(st) == \A i \in 1 .. Len(st.cols) : st.cols[i] \in DOMAIN st.conds

\* IndexScanExecutor::beginTuple: a column without an equality condition
\* makes scan_ a new scan of all the leaves; with the whole key bound scan_ is
\* made, on the range of the key, only when it is null; then the loop
index_scan_beginTuple(W, txn, st) ==
    LET entries == W.ix[st.cols]
        key == [i \in 1 .. Len(st.cols) |-> st.conds[st.cols[i]]]
        positioned ==
            IF ~KeyBound(st)
            THEN [st EXCEPT !.open = TRUE, !.rng = ScanRids(entries), !.pos = 1]
            ELSE IF ~st.open
                 THEN [st EXCEPT !.open = TRUE, !.rng = ScanRids(KeyRange(entries, key)),
                                 !.pos = 1]
                 ELSE st
    IN IndexScanLoop(W, txn, positioned)

\* IndexScanExecutor::nextTuple
index_scan_nextTuple(W, txn, st) ==
    IF IxIsEnd(st) THEN [w |-> W, st |-> st]
    ELSE IndexScanLoop(W, txn, [st EXCEPT !.pos = @ + 1])

\* IndexScanExecutor::Next: the record rid_ names, nothing at the end
index_scan_Next(W, txn, st) ==
    IF IxIsEnd(st) THEN W ELSE get_record(W, st.rid, txn)

\* what a call leaves in the executor
IxAt(out) == [out.st EXCEPT !.at = IF out.w.err # "OK" THEN "raised" ELSE "begun"]

\* what beginTuple / nextTuple of the index scan of txn leave behind
ApplyIndexScan(out, txn) ==
    /\ Apply(out.w, txn)
    /\ ixscan' = [ixscan EXCEPT ![txn] = IxAt(out)]

\* what Next of the index scan of txn leaves behind
ApplyIndexScanNext(W, txn) ==
    /\ Apply(W, txn)
    /\ ixscan' = IF W.err = "OK" THEN ixscan ELSE [ixscan EXCEPT ![txn].at = "raised"]

\* an IndexScanExecutor built on an index of the table and conditions, and
\* its beginTuple
IndexScanBegin(txn, cols, conds) ==
    /\ Caller(txn)
    /\ ixscan[txn].at = "none"
    /\ cols \in catalog
    /\ ApplyIndexScan(index_scan_beginTuple(World(txn), txn,
                          [NoIxScan EXCEPT !.cols = cols, !.conds = conds]), txn)
    /\ UNCHANGED <<txn_state, txn_map, next_txn_id, pc, to_release, released, last,
                   new_txn, opened, undo_it, ins, scan, dml_vars, join>>

\* IndexScanExecutor::nextTuple called for txn
IndexScanNext(txn) ==
    /\ Caller(txn)
    /\ ixscan[txn].at = "begun"
    /\ ~IxIsEnd(ixscan[txn])
    /\ ApplyIndexScan(index_scan_nextTuple(World(txn), txn, ixscan[txn]), txn)
    /\ UNCHANGED <<txn_state, txn_map, next_txn_id, pc, to_release, released, last,
                   new_txn, opened, undo_it, ins, scan, dml_vars, join>>

\* IndexScanExecutor::Next called for txn
IndexScanRecord(txn) ==
    /\ Caller(txn)
    /\ ixscan[txn].at = "begun"
    /\ ~IxIsEnd(ixscan[txn])
    /\ ApplyIndexScanNext(index_scan_Next(World(txn), txn, ixscan[txn]), txn)
    /\ UNCHANGED <<txn_state, txn_map, next_txn_id, pc, to_release, released, last,
                   new_txn, opened, undo_it, ins, scan, dml_vars, join>>

\* the longest rid list handed to an operator that runs beside an index scan
MaxRidsBeside == 1

\* a table whose first record is (0, 0), with one index
InitIxScan ==
    /\ InitDml
    /\ Cardinality(catalog) = 1
    /\ pages[1].slots[0] = Rec(0, 0)

\* the first transaction scans an index of the table, the others run Delete
\* and Update operators; they commit and abort
NextIxScan ==
    \/ BeginNew
    \/ \E txn \in Txns, cols \in AllIndexes, conds \in Conds :
          First(txn) /\ IndexScanBegin(txn, cols, conds)
    \/ \E txn \in Txns : IndexScanNext(txn)
    \/ \E txn \in Txns : IndexScanRecord(txn)
    \/ \E txn \in Txns, rids \in RidLists, first \in Firsts :
          /\ ~First(txn) /\ Len(rids) = MaxRidsBeside /\ write_set[txn] = <<>>
          /\ DeleteRun(txn, rids, first)
    \/ \E txn \in Txns, rids \in RidLists, sc \in SetClauses, first \in Firsts :
          /\ ~First(txn) /\ Len(rids) = MaxRidsBeside /\ write_set[txn] = <<>>
          /\ UpdateRun(txn, rids, sc, first)
    \/ \E txn \in Txns : Commit(txn)
    \/ \E txn \in Txns : AbortStart(txn)
    \/ \E txn \in Txns : UndoStep(txn)
    \/ \E txn \in Txns : AbortFinish(txn)

SpecIxScan == InitIxScan /\ [][NextIxScan]_vars

\* -------------------------------------------------- NestedLoopJoinExecutor
\* the comparison operators of a join condition
CompOps == {"OP_EQ", "OP_LT"}

\* the switch on cond.op over the two column values
Compare(op, a, b) == IF op = "OP_EQ" THEN a = b ELSE a < b

\* fed_conds_ of a join: no condition, or one that compares a column of the
\* left tuple with a column of the right tuple
JoinConds ==
    {{}} \cup {{[lhs |-> l, op |-> op, rhs |-> r]} : l \in Cols, op \in CompOps, r \in Cols}

\* the loop over fed_conds_ inside satisfy
JoinSatisfy(lrec, rrec, conds) ==
    \A c \in conds : Compare(c.op, Col(lrec, c.lhs), Col(rrec, c.rhs))

\* The executor at work: the world w, the rid l the left child (a
\* SeqScanExecutor) stands on, NoRid at its end, the right child r (an
\* IndexScanExecutor), the join conditions and isend.
\* The for (;;) loop of beginTuple and nextTuple: while the right child is not
\* at its end, return on a pair that satisfies the conditions, else
\* right_->nextTuple(); then left_->nextTuple() and, unless the left child is
\* at its end, right_->beginTuple().
RECURSIVE JoinLoop(_, _)
RECURSIVE JoinRight(_, _, _)
RECURSIVE JoinLeftRecord(_, _, _)
RECURSIVE JoinTest(_, _, _, _)
RECURSIVE JoinLeft(_, _, _)
JoinLoop(J, txn) ==
    IF J.w.err # "OK" THEN J
    ELSE IF J.l = NoRid THEN [J EXCEPT !.isend = TRUE]
    ELSE IF ~IxIsEnd(J.r) THEN JoinLeftRecord(J, txn, get_record(J.w, J.l, txn))
    ELSE JoinLeft(J, txn, SeqScanLoop(J.w, txn, RidAfter(J.l)))

\* the loop once right_->beginTuple() or right_->nextTuple() has returned:
\* out is the world and the right child they left
JoinRight(J, txn, out) == JoinLoop([J EXCEPT !.w = out.w, !.r = out.st], txn)

\* satisfy once left_->Next() has returned: Wl holds the left record
JoinLeftRecord(J, txn, Wl) == JoinTest(J, txn, Wl.record, get_record(Wl, J.r.rid, txn))

\* a satisfy that returns on any pair of records
JoinTest_any_pair(J, txn, lrec, Wr) == [J EXCEPT !.w = Wr]

\* satisfy once right_->Next() has returned: the conditions over the two
\* records; return on a pair that satisfies them, else right_->nextTuple()
JoinTest(J, txn, lrec, Wr) ==
    IF Wr.err # "OK" THEN [J EXCEPT !.w = Wr]
    ELSE IF JoinSatisfy(lrec, Wr.record, J.conds) THEN [J EXCEPT !.w = Wr]
    ELSE JoinRight(J, txn, index_scan_nextTuple(Wr, txn, J.r))

\* the loop once left_->nextTuple() has returned: at the end of the left
\* child isend, else right_->beginTuple()
JoinLeft(J, txn, Wl) ==
    IF Wl.err # "OK" THEN [J EXCEPT !.w = Wl]
    ELSE IF Wl.rid = NoRid THEN [J EXCEPT !.w = Wl, !.l = NoRid, !.isend = TRUE]
    ELSE JoinRight([J EXCEPT !.l = Wl.rid], txn, index_scan_beginTuple(Wl, txn, J.r))

\* beginTuple once left_->beginTuple() has returned
JoinLeftBegun(J, txn, Wl) ==
    IF Wl.err # "OK" THEN [J EXCEPT !.w = Wl]
    ELSE IF Wl.rid = NoRid THEN [J EXCEPT !.w = Wl, !.isend = TRUE]
    ELSE JoinRight([J EXCEPT !.l = Wl.rid], txn, index_scan_beginTuple(Wl, txn, J.r))

\* NestedLoopJoinExecutor::beginTuple
join_beginTuple(W, txn, right, conds) ==
    JoinLeftBegun([w |-> W, l |-> NoRid, r |-> right, conds |-> conds, isend |-> FALSE],
                  txn, SeqScanLoop(W, txn, FirstRid))

\* NestedLoopJoinExecutor::nextTuple, called when the join is not at its end
join_nextTuple(W, txn, left, right, conds) ==
    JoinRight([w |-> W, l |-> left, r |-> right, conds |-> conds, isend |-> FALSE],
              txn, index_scan_nextTuple(W, txn, right))

\* what beginTuple / nextTuple of the join leave in the executors of txn
ApplyJoin(J, txn) ==
    /\ Apply(J.w, txn)
    /\ ixscan' = [ixscan EXCEPT ![txn] = IxAt([w |-> J.w, st |-> J.r])]
    /\ join' = [join EXCEPT ![txn].l = J.l,
                            ![txn].conds = J.conds,
                            ![txn].at = IF J.w.err # "OK" THEN "raised"
                                        ELSE IF J.isend THEN "end" ELSE "on"]

\* what Next of the join of txn leaves behind
ApplyJoinNext(W, txn) ==
    /\ Apply(W, txn)
    /\ join' = [join EXCEPT
          ![txn].at = IF W.err # "OK" THEN "raised" ELSE "got",
          ![txn].out = IF W.err # "OK" THEN @
                       ELSE Append(@, <<join[txn].l, ixscan[txn].rid>>)]

\* a join built for txn on a sequential scan of the table (left) and an index
\* scan of the table (right), and its beginTuple
JoinBegin(txn, cols, conds, jconds) ==
    /\ Caller(txn)
    /\ join[txn].at = "none"
    /\ ixscan[txn].at = "none"
    /\ cols \in catalog
    /\ ApplyJoin(join_beginTuple(World(txn), txn,
                     [NoIxScan EXCEPT !.cols = cols, !.conds = conds], jconds), txn)
    /\ UNCHANGED <<txn_state, txn_map, next_txn_id, pc, to_release, released, last,
                   new_txn, opened, undo_it, ins, scan, dml_vars>>

\* NestedLoopJoinExecutor::Next: the pair of records the children stand on;
\* the tuple returned is kept as the pair of their rids
JoinRecord(txn) ==
    /\ Caller(txn)
    /\ join[txn].at = "on"
    /\ ApplyJoinNext(index_scan_Next(get_record(World(txn), join[txn].l, txn),
                                      txn, ixscan[txn]), txn)
    /\ UNCHANGED <<txn_state, txn_map, next_txn_id, pc, to_release, released, last,
                   new_txn, opened, undo_it, ins, scan, dml_vars, ixscan>>

\* NestedLoopJoinExecutor::nextTuple called for txn after Next
JoinNext(txn) ==
    /\ Caller(txn)
    /\ join[txn].at = "got"
    /\ ApplyJoin(join_nextTuple(World(txn), txn, join[txn].l, ixscan[txn], join[txn].conds), txn)
    /\ UNCHANGED <<txn_state, txn_map, next_txn_id, pc, to_release, released, last,
                   new_txn, opened, undo_it, ins, scan, dml_vars>>

\* one transaction joins the table with itself and commits
NextJoin ==
    \/ next_txn_id = 0 /\ BeginNew
    \/ \E txn \in Txns, cols \in AllIndexes, conds \in Conds, jconds \in JoinConds :
          JoinBegin(txn, cols, conds, jconds)
    \/ \E txn \in Txns : JoinRecord(txn)
    \/ \E txn \in Txns : JoinNext(txn)
    \/ \E txn \in Txns : Commit(txn)

SpecJoin == InitDml /\ [][NextJoin]_vars

\* -------------------------------------------------------------- SmManager
\* the loop `it->index = v` over the columns named
set_col_index(flags, cols, v) ==
    [c \in Cols |-> IF c \in ColsOf(cols) THEN v ELSE flags[c]]

\* ihs_.emplace(ix_name, open_index(...)) on the index just created: the
\* handle of an empty tree
ihs_emplace(ihs, cols) ==
    [x \in (DOMAIN ihs) \cup {cols} |-> IF x = cols /\ x \notin DOMAIN ihs THEN {} ELSE ihs[x]]

\* ihs_.find / close_index / ihs_.erase
ihs_erase(ihs, cols) == [x \in (DOMAIN ihs) \ {cols} |-> ihs[x]]

\* what a call of SmManager leaves alone
SmFrame ==
    UNCHANGED <<lock_table, txn_state, lock_set, txn_map, next_txn_id, pc, to_release,
                released, last, new_txn, opened, rm_vars, ins, scan, threw, rd_vars>>

\* SmManager::create_index(tab_name, col_names, context) on the table:
\* IndexExistsError when the index is in the metadata; else the flags of its
\* columns set, the index created, listed in TabMeta::indexes and opened
CreateIndex(cols) ==
    /\ IF cols \in catalog
       THEN UNCHANGED <<catalog, index, col_index>>
       ELSE /\ col_index' = set_col_index(col_index, cols, TRUE)
            /\ catalog' = catalog \cup {cols}
            /\ index' = ihs_emplace(index, cols)
    /\ SmFrame

\* the body both drop_index overloads share: the handle closed and erased,
\* the flags of the columns of the index cleared, the index erased from
\* TabMeta::indexes
drop_index(cols) ==
    /\ index' = ihs_erase(index, cols)
    /\ col_index' = set_col_index(col_index, cols, FALSE)
    /\ catalog' = catalog \ {cols}

\* SmManager::drop_index(tab_name, col_names, context): IndexNotFoundError
\* when the index is not in the metadata
DropIndex(cols) ==
    /\ IF cols \notin catalog
       THEN UNCHANGED <<catalog, index, col_index>>
       ELSE drop_index(cols)
    /\ SmFrame

\* SmManager::drop_index(tab_name, cols, context), the overload its callers
\* hand the column metadata of an index of the table
DropIndexCols(cols) ==
    /\ cols \in catalog
    /\ drop_index(cols)
    /\ SmFrame

\* indexes of the table are created and dropped
NextSm ==
    \/ \E cols \in AllIndexes : CreateIndex(cols)
    \/ \E cols \in AllIndexes : DropIndex(cols)
    \/ \E cols \in AllIndexes : DropIndexCols(cols)

SpecSm == InitDml /\ [][NextSm]_vars

TypeOK ==
    /\ DOMAIN lock_table \subseteq LockIds
    /\ \A id \in DOMAIN lock_table : \A i \in 1 .. Len(lock_table[id]) :
          /\ lock_table[id][i].txn_id \in Txns
          /\ lock_table[id][i].lock_mode \in Modes
          /\ lock_table[id][i].granted \in BOOLEAN
    /\ txn_state \in [Txns -> {"NONE", "GROWING", "SHRINKING", "COMMITTED", "ABORTED"}]
    /\ pinned \in [Txns -> SUBSET PageNos]
    /\ col_index \in [Cols -> BOOLEAN]
    /\ lock_set \in [Txns -> SUBSET LockIds]
    /\ txn_map \subseteq Txns
    /\ next_txn_id \in 0 .. MaxTxn
    /\ last.res \in Results
    /\ pc \in [Txns -> {"idle", "commit", "abort", "raised", "insert"}]
    /\ ins \in [Txns -> [page_no : PageNos \cup {RM_NO_PAGE}, slot_no : 0 .. num_records_per_page]]
    /\ scan \in [Txns -> [at : {"none", "on", "end", "raised"}, rid : Rids \cup {NoRid}]]
    /\ to_release \in [Txns -> SUBSET LockIds]
    /\ released \in [Txns -> BOOLEAN]
    /\ new_txn \subseteq Txns
    /\ file_hdr.num_pages \in 1 .. (MaxPages + 1)
    /\ file_hdr.first_free_page_no \in PageNos \cup {RM_NO_PAGE}
    /\ \A p \in PageNos :
          \* above num_records_per_page only after insert_record calls of two threads
          /\ pages[p].num_records \in 0 .. (num_records_per_page + MaxTxn * MaxWrites)
          /\ pages[p].next_free_page_no \in PageNos \cup {RM_NO_PAGE}
          /\ pages[p].bitmap \in [SlotNos -> BOOLEAN]
          /\ pages[p].slots \in [SlotNos -> Bytes \cup Recs]
    /\ catalog \subseteq AllIndexes
    /\ DOMAIN index = catalog
    /\ \A cols \in catalog : \A e \in index[cols] :
          e.rid \in Rids /\ e.key \in [1 .. Len(cols) -> Vals]
    /\ threw \in [Txns -> BOOLEAN]
    /\ \A t \in Txns :
          /\ ixscan[t].at \in {"none", "begun", "raised"}
          /\ ixscan[t].cols \in AllIndexes \cup {<<>>}
          /\ ixscan[t].conds \in Conds
          /\ ixscan[t].open \in BOOLEAN
          /\ \A i \in 1 .. Len(ixscan[t].rng) : ixscan[t].rng[i] \in Rids
          /\ ixscan[t].pos \in 1 .. (Len(ixscan[t].rng) + 1)
          /\ ixscan[t].rid \in Rids \cup {NoRid}
          /\ join[t].at \in {"none", "on", "got", "end", "raised"}
          /\ join[t].conds \in JoinConds
          /\ join[t].l \in Rids \cup {NoRid}
          /\ \A i \in 1 .. Len(join[t].out) : join[t].out[i] \in Rids \X Rids
    /\ \A t \in Txns :
          /\ Len(write_set[t]) <= MaxWritesAlone
          /\ \A i \in 1 .. Len(write_set[t]) :
                /\ write_set[t][i].wtype \in WTypes
                /\ write_set[t][i].rid \in Rids
                /\ write_set[t][i].record \in Bytes \cup Recs
          /\ undo_it[t] \in 0 .. Len(write_set[t])

\* ------------------------------------------------ vocabulary of the claims
\* the compatibility matrix of the specification, as the set of compatible pairs
MatrixPairs ==
    {<<"IS", "IS">>, <<"IS", "IX">>, <<"IS", "S">>, <<"IS", "SIX">>,
     <<"IX", "IS">>, <<"IX", "IX">>,
     <<"S", "IS">>, <<"S", "S">>,
     <<"SIX", "IS">>}

\* the requests of txn in the queue of id, in queue order
RequestsOf(tab, txn, id) == SelectSeq(QueueOf(tab, id), LAMBDA r : r.txn_id = txn)

\* the requests of the other transactions in the queue of id, in queue order
OthersOf(tab, txn, id) == SelectSeq(QueueOf(tab, id), LAMBDA r : r.txn_id # txn)

\* txn holds a granted request on id
Holds(tab, txn, id) ==
    \E i \in 1 .. Len(QueueOf(tab, id)) :
        QueueOf(tab, id)[i].txn_id = txn /\ QueueOf(tab, id)[i].granted

\* txn holds a granted request of this mode on id
HoldsMode(tab, txn, id, mode) ==
    \E i \in 1 .. Len(QueueOf(tab, id)) :
        /\ QueueOf(tab, id)[i].txn_id = txn
        /\ QueueOf(tab, id)[i].granted
        /\ QueueOf(tab, id)[i].lock_mode = mode

\* mode is compatible, under the matrix, with every granted request of every
\* other transaction on id
MatrixAdmits(tab, txn, id, mode) ==
    \A i \in 1 .. Len(QueueOf(tab, id)) :
        LET r == QueueOf(tab, id)[i]
        IN (r.txn_id # txn /\ r.granted) => <<mode, r.lock_mode>> \in MatrixPairs

\* every queue other than that of id is the same in both tables
SameElsewhere(tab1, tab2, id) ==
    \A x \in Ids \ {id} :
        /\ (x \in DOMAIN tab1) = (x \in DOMAIN tab2)
        /\ QueueOf(tab1, x) = QueueOf(tab2, x)

Terminal(txn) == txn_state[txn] \in {"COMMITTED", "ABORTED"}

\* ------------------------------------------------------------------- C1
\* C1: in every reachable state, any two granted requests on the same
\* LockDataId that belong to different transactions have modes that are
\* compatible under the matrix.
C1_GrantedCompatible ==
    \A id \in DOMAIN lock_table :
        \A i, j \in 1 .. Len(lock_table[id]) :
            LET a == lock_table[id][i]
                b == lock_table[id][j]
            IN (a.granted /\ b.granted /\ a.txn_id # b.txn_id)
                   => <<a.lock_mode, b.lock_mode>> \in MatrixPairs

\* two transactions share an id, neither in the weakest mode, one of them
\* after an upgrade or a refused request
C1_Witness ==
    \E id \in DOMAIN lock_table :
        \E i, j \in 1 .. Len(lock_table[id]) :
            /\ lock_table[id][i].txn_id # lock_table[id][j].txn_id
            /\ lock_table[id][i].granted /\ lock_table[id][j].granted
            /\ lock_table[id][i].lock_mode # "IS"
            /\ lock_table[id][j].lock_mode # "IS"

\* ------------------------------------------------------------------- C2
\* C2: a GROWING transaction with no request in the queue of id that calls
\* lock_internal(txn, id, mode) succeeds iff mode is compatible with every
\* granted request of every other transaction on id; on success exactly one
\* request {txn, mode, granted} is appended and id joins its lock set; on
\* conflict the call fails with DEADLOCK_PREVENTION and the lock table, the
\* lock set and the state are unchanged.
C2_NewRequestStep ==
    LET txn == last'.txn
        id == last'.id
        mode == last'.mode
    IN (/\ last'.op = "lock"
        /\ txn_state[txn] = "GROWING"
        /\ RequestsOf(lock_table, txn, id) = <<>>)
       => IF MatrixAdmits(lock_table, txn, id, mode)
          THEN /\ last'.res = "OK"
               /\ QueueOf(lock_table', id)
                    = Append(QueueOf(lock_table, id),
                             [txn_id |-> txn, lock_mode |-> mode, granted |-> TRUE])
               /\ SameElsewhere(lock_table, lock_table', id)
               /\ lock_set' = [lock_set EXCEPT ![txn] = @ \cup {id}]
               /\ txn_state' = txn_state
          ELSE /\ last'.res = "DEADLOCK_PREVENTION"
               /\ lock_table' = lock_table
               /\ lock_set' = lock_set
               /\ txn_state' = txn_state

\* C2: every lock_internal call of a GROWING transaction without a request on
\* the id is granted iff the matrix admits it, and a refused one changes nothing
C2_NewRequest == [][C2_NewRequestStep]_vars

\* a new request was refused: the requester is still GROWING, holds nothing,
\* and the holder of the conflicting lock is untouched
C2_Witness ==
    /\ last.op = "lock" /\ last.res = "DEADLOCK_PREVENTION"
    /\ \E txn \in txn_map :
          /\ txn_state[txn] = "GROWING"
          /\ lock_set[txn] = {}
          /\ \E other \in txn_map \ {txn} : lock_set[other] # {}

\* ------------------------------------------------------------------- C3
\* what a mode lets its holder do; the upgrade lattice on a table is the join
Priv(m) ==
    CASE m = "IS" -> {"is"}
      [] m = "IX" -> {"is", "ix"}
      [] m = "S" -> {"is", "s"}
      [] m = "SIX" -> {"is", "ix", "s"}
      [] m = "X" -> {"is", "ix", "s", "x"}

\* the upgrade lattice as the claims state it; "undefined" where no upgrade exists
ClaimLattice(type, cur, req) ==
    IF cur = "X" THEN "X"
    ELSE IF req = "IS" THEN cur
    ELSE IF type = "TABLE"
         THEN CHOOSE m \in Modes : Priv(m) = Priv(cur) \cup Priv(req)
    ELSE IF cur = "S" /\ req = "S" THEN "S"
    ELSE IF cur = "S" /\ req = "X" THEN "X"
    ELSE "undefined"

\* the mode txn holds on id (txn has a request there)
HeldMode(tab, txn, id) == RequestsOf(tab, txn, id)[1].lock_mode

\* C3 (P7): a GROWING transaction that holds M on id and requests M' with a
\* defined upgrade U = M (+) M' succeeds iff every other transaction's granted
\* request on id is compatible with U (also when U = M); on success its single
\* request carries U, on failure the reason is UPGRADE_CONFLICT and it still
\* holds M.
C3_UpgradeStep ==
    LET txn == last'.txn
        id == last'.id
        mode == last'.mode
    IN (/\ last'.op = "lock"
        /\ txn_state[txn] = "GROWING"
        /\ Holds(lock_table, txn, id))
       => LET cur == HeldMode(lock_table, txn, id)
              up == ClaimLattice(id.type, cur, mode)
              rq == QueueOf(lock_table, id)
          IN up # "undefined"
             => IF MatrixAdmits(lock_table, txn, id, up)
                THEN /\ last'.res = "OK"
                     /\ id \in DOMAIN lock_table'
                     /\ Len(lock_table'[id]) = Len(rq)
                     /\ \A i \in 1 .. Len(rq) :
                           lock_table'[id][i]
                             = IF rq[i].txn_id = txn
                               THEN [txn_id |-> txn, lock_mode |-> up, granted |-> TRUE]
                               ELSE rq[i]
                     /\ Len(RequestsOf(lock_table', txn, id)) = 1
                     /\ SameElsewhere(lock_table, lock_table', id)
                     /\ lock_set' = lock_set
                     /\ txn_state' = txn_state
                ELSE /\ last'.res = "UPGRADE_CONFLICT"
                     /\ lock_table' = lock_table
                     /\ lock_set' = lock_set
                     /\ txn_state' = txn_state

\* C3: every re-entrant lock_internal call with a defined upgrade succeeds iff
\* the upgraded mode is compatible with the other holders
C3_Upgrade == [][C3_UpgradeStep]_vars

\* an upgrade on the table was refused because of another holder: the
\* requester keeps a mode weaker than the one it asked for
C3_Witness ==
    /\ last.op = "lock" /\ last.res = "UPGRADE_CONFLICT"
    /\ last.id = TableId
    /\ Holds(lock_table, last.txn, last.id)
    /\ HeldMode(lock_table, last.txn, last.id) # last.mode
    /\ \E other \in txn_map \ {last.txn} : Holds(lock_table, other, last.id)

\* ------------------------------------------------------------------- C4
\* C4: the upgrade function of lock_internal equals the lattice for every pair
\* (current, requested): a transaction that holds cur on id and requests req
\* fails with UPGRADE_CONFLICT where the lattice is undefined (on a RECORD id
\* every pair but S(+)S, S(+)X, X(+)any, any(+)IS), and otherwise, when the
\* call succeeds, holds exactly the lattice's mode.
C4_LatticeStep ==
    LET txn == last'.txn
        id == last'.id
        mode == last'.mode
    IN (/\ last'.op = "lock"
        /\ txn_state[txn] = "GROWING"
        /\ Holds(lock_table, txn, id))
       => LET up == ClaimLattice(id.type, HeldMode(lock_table, txn, id), mode)
          IN IF up = "undefined"
             THEN last'.res = "UPGRADE_CONFLICT"
             ELSE /\ last'.res \in {"OK", "UPGRADE_CONFLICT"}
                  /\ last'.res = "OK" => HoldsMode(lock_table', txn, id, up)

\* C4: every re-entrant lock_internal call follows the stated lattice
C4_Lattice == [][C4_LatticeStep]_vars

\* ------------------------------------------------------------------- C5
\* C5: two-phase property: once a transaction has released a lock (an unlock
\* that removed a request of it, or the start of commit / abort), no later
\* step grants it a new lock or an upgrade on any id.
C5_TwoPhaseStep ==
    \A txn \in Txns :
        released[txn]
        => \A id \in Ids, m \in Modes :
               HoldsMode(lock_table', txn, id, m) => HoldsMode(lock_table, txn, id, m)

\* C5: no step grants a lock or an upgrade to a transaction that has released
C5_TwoPhase == [][C5_TwoPhaseStep]_vars

\* ------------------------------------------------------------------- C6
\* C6: any lock request of a transaction whose state is SHRINKING fails with
\* LOCK_ON_SHRINKING and leaves the lock table and its lock set unchanged.
C6_ShrinkingStep ==
    (last'.op = "lock" /\ txn_state[last'.txn] = "SHRINKING")
    => /\ last'.res = "LOCK_ON_SHRINKING"
       /\ lock_table' = lock_table
       /\ lock_set' = lock_set

\* C6: every lock_internal call of a SHRINKING transaction fails with
\* LOCK_ON_SHRINKING and changes neither the lock table nor a lock set
C6_Shrinking == [][C6_ShrinkingStep]_vars

\* a SHRINKING transaction asked again for the mode it still holds on an id
\* and was refused
C6_Witness ==
    /\ last.op = "lock" /\ last.res = "LOCK_ON_SHRINKING"
    /\ txn_state[last.txn] = "SHRINKING"
    /\ last.id \in lock_set[last.txn]
    /\ HoldsMode(lock_table, last.txn, last.id, last.mode)

\* ------------------------------------------------------------------- C7
\* no queue holds a request of a transaction that committed or aborted, and
\* its lock set is empty
C7_NothingHeld ==
    \A txn \in Txns :
        Terminal(txn)
        => /\ lock_set[txn] = {}
           /\ \A id \in Ids : RequestsOf(lock_table, txn, id) = <<>>

\* a new request that is compatible with what the live transactions hold on
\* the id is granted
C7_RetryStep ==
    LET txn == last'.txn
        id == last'.id
        mode == last'.mode
    IN (/\ last'.op = "lock"
        /\ txn_state[txn] = "GROWING"
        /\ ~Holds(lock_table, txn, id)
        /\ \A other \in txn_map \ {txn}, m \in Modes :
              HoldsMode(lock_table, other, id, m) => <<mode, m>> \in MatrixPairs)
       => /\ last'.res = "OK"
          /\ HoldsMode(lock_table', txn, id, mode)

\* C7: after commit or abort of a transaction returns, no queue of the lock
\* table contains a request of it and its lock set is empty; so a request
\* that conflicts with no live transaction's lock is granted (a request
\* refused because of the ended transaction's lock succeeds when retried).
C7_Released == []C7_NothingHeld /\ [][C7_RetryStep]_vars

\* a transaction has ended and another one has just been granted X on a record
C7_Witness ==
    /\ \E txn \in Txns : Terminal(txn) /\ released[txn]
    /\ last.op = "lock" /\ last.res = "OK" /\ last.mode = "X"
    /\ last.id \in RecordIds
    /\ last.txn \in txn_map
    /\ HoldsMode(lock_table, last.txn, last.id, "X")

\* ------------------------------------------------------------------- C8
\* what unlock(txn, id) leaves behind when it does its work
UnlockPost(txn, id) ==
    /\ RequestsOf(lock_table', txn, id) = <<>>
    /\ id \notin lock_set'[txn]
    /\ txn_state'[txn] # "GROWING"
    /\ \A other \in Txns \ {txn}, x \in Ids :
          RequestsOf(lock_table', other, x) = RequestsOf(lock_table, other, x)

\* C8 as stated: unlock(txn, id), for any id, ends with no request of txn in
\* the queue of id, id not in its lock set, its state not GROWING, and every
\* other transaction's requests on every id unchanged.
C8_UnlockAnyIdStep == last'.op = "unlock" => UnlockPost(last'.txn, last'.id)

\* C8 as stated, for every unlock call
C8_UnlockAnyId == [][C8_UnlockAnyIdStep]_vars

\* C8 amended: unlock(txn, id) for an id that has a queue in the lock table
\* ends with no request of txn in that queue, id not in its lock set, its
\* state not GROWING (GROWING becomes SHRINKING, any other state stays), and
\* every other transaction's requests unchanged; for an id that has no queue
\* it returns success and changes nothing, so a GROWING transaction stays
\* GROWING.
C8_UnlockStep ==
    LET txn == last'.txn
        id == last'.id
    IN last'.op = "unlock"
       => IF id \in DOMAIN lock_table
          THEN /\ UnlockPost(txn, id)
               /\ txn_state'[txn]
                    = IF txn_state[txn] = "GROWING" THEN "SHRINKING" ELSE txn_state[txn]
               /\ \A other \in Txns \ {txn} :
                     /\ txn_state'[other] = txn_state[other]
                     /\ lock_set'[other] = lock_set[other]
               /\ lock_set'[txn] = lock_set[txn] \ {id}
          ELSE /\ lock_table' = lock_table
               /\ lock_set' = lock_set
               /\ txn_state' = txn_state

\* C8 amended, for every unlock call (direct, or made by commit / abort)
C8_Unlock == [][C8_UnlockStep]_vars

\* a transaction called unlock on an id it held while another transaction
\* holds that id too: it is SHRINKING and off the queue, the other request stays
C8_Witness ==
    /\ last.op = "unlock"
    /\ pc[last.txn] = "idle"
    /\ txn_state[last.txn] = "SHRINKING"
    /\ released[last.txn]
    /\ ~Holds(lock_table, last.txn, last.id)
    /\ \E other \in txn_map \ {last.txn} : Holds(lock_table, other, last.id)

\* ------------------------------------------------------------------- C9
\* C9: in every reachable state, for every live transaction and every id, the
\* id is in the transaction's lock set iff the queue of the id holds a granted
\* request of the transaction.
C9_LockSetExact ==
    \A txn \in txn_map, id \in Ids :
        (id \in lock_set[txn]) <=> Holds(lock_table, txn, id)

\* a live transaction after an unlock: it still holds the table in SIX, gave
\* a record back, and another transaction holds that record
C9_Witness ==
    \E txn \in txn_map, rec \in RecordIds :
        /\ HoldsMode(lock_table, txn, TableId, "SIX")
        /\ TableId \in lock_set[txn]
        /\ txn_state[txn] = "SHRINKING"
        /\ pc[txn] = "idle"
        /\ released[txn]
        /\ rec \notin lock_set[txn]
        /\ \E other \in txn_map \ {txn} : Holds(lock_table, other, rec)

\* ------------------------------------------------------------------ C10
\* C10 (P6, no-wait): every request present in any queue of the lock table is
\* granted; a lock_internal call ends in its own step with success or with an
\* AbortReason, and a refused new request leaves nothing of the caller in the
\* queue, so no transaction ever waits for a lock.
C10_NoWait ==
    /\ \A id \in DOMAIN lock_table : \A i \in 1 .. Len(lock_table[id]) :
          lock_table[id][i].granted
    /\ last.op = "lock" => last.res \in Results
    /\ (last.op = "lock" /\ last.res = "DEADLOCK_PREVENTION")
          => RequestsOf(lock_table, last.txn, last.id) = <<>>

\* a conflicting request has just been refused: the holder's request is the
\* only one in the queue
C10_Witness ==
    /\ last.op = "lock" /\ last.res = "DEADLOCK_PREVENTION"
    /\ last.id \in DOMAIN lock_table
    /\ Len(lock_table[last.id]) = 1
    /\ lock_table[last.id][1].txn_id # last.txn

\* ------------------------------------------------------------------ C11
\* the moves of the life cycle: begin -> GROWING, GROWING -> SHRINKING,
\* SHRINKING -> COMMITTED inside commit, SHRINKING -> ABORTED inside abort
LifeCycleMoves(txn) ==
    {<<"NONE", "GROWING">>, <<"GROWING", "SHRINKING">>}
        \cup (IF pc[txn] = "commit" THEN {<<"SHRINKING", "COMMITTED">>} ELSE {})
        \cup (IF pc[txn] = "abort" THEN {<<"SHRINKING", "ABORTED">>} ELSE {})

C11_LifeCycleStep ==
    \A txn \in Txns :
        \/ txn_state'[txn] = txn_state[txn]
        \/ <<txn_state[txn], txn_state'[txn]>> \in LifeCycleMoves(txn)

\* C11: the state of a transaction only moves along the life cycle; no step of
\* the transaction manager or the lock manager, begin with an existing
\* transaction included, moves a transaction out of COMMITTED or ABORTED or
\* back from SHRINKING to GROWING.
C11_LifeCycle == [][C11_LifeCycleStep]_vars

\* ------------------------------------------------------------------ C12
\* the ids begin(nullptr) has handed out or is about to hand out
Begun == {t \in Txns : txn_state[t] # "NONE"}

C12_BeginStep ==
    /\ \A t \in Txns :
          \* the id a begin takes is new and above every id taken before
          /\ (t \in new_txn' \ new_txn) => (t \notin Begun /\ \A u \in Begun : u < t)
          \* begin returns the transaction GROWING and in txn_map
          /\ (t \in new_txn \ new_txn') => (txn_state'[t] = "GROWING" /\ t \in txn_map')
          \* only the epilogue of commit or abort takes it out of txn_map
          /\ (t \in txn_map \ txn_map') => (pc[t] \in {"commit", "abort"} /\ Terminal(t)')
    \* no transaction appears otherwise
    /\ Begun' \ Begun \subseteq new_txn' \ new_txn

\* C12: every begin(nullptr) returns a new GROWING transaction whose id is
\* distinct from and greater than every id an earlier begin(nullptr) returned;
\* begins running at once on different threads never return the same id; the
\* transaction is in txn_map from the return of begin until its commit or
\* abort removes it.
C12_BeginIds == [][C12_BeginStep]_vars

\* two begins ran at once: the one that took the greater id has returned, the
\* other has not yet
C12_Witness ==
    \E t, u \in Txns : t < u /\ t \in new_txn /\ u \in txn_map /\ txn_state[u] = "GROWING"

\* ------------------------------------------------------------------ C13
\* C13 (P4, single transaction): after any sequence of successful
\* insert_record, delete_record and update_record calls of one transaction
\* that no other transaction's writes interleave with, abort runs to its end
\* and leaves the occupied rids and the bytes at each of them as they were
\* before the transaction began.
C13_UndoRestores ==
    \A txn \in Txns :
        /\ pc[txn] # "raised"
        /\ (First(txn) /\ txn_state[txn] = "ABORTED")
              => Contents(file_hdr, pages) = opened

\* the transaction has undone a DELETE_TUPLE, an UPDATE_TUPLE and an
\* INSERT_TUPLE record, in this order, and is about to finish its abort
C13_Witness ==
    \E txn \in Txns :
        /\ First(txn)
        /\ pc[txn] = "abort"
        /\ undo_it[txn] = 0
        /\ Len(write_set[txn]) = 3
        /\ write_set[txn][1].wtype = "INSERT_TUPLE"
        /\ write_set[txn][2].wtype = "UPDATE_TUPLE"
        /\ write_set[txn][3].wtype = "DELETE_TUPLE"
        /\ write_set[txn][2].rid = write_set[txn][1].rid
        /\ write_set[txn][3].rid = write_set[txn][1].rid
        /\ Contents(file_hdr, pages) = opened

\* ------------------------------------------------------------- C14 - C16
\* the step is a step of abort(txn): its prologue, one iteration of its undo
\* loop (that may raise), or its end
AbortStepOf(txn) ==
    /\ pc[txn] = "abort" \/ pc'[txn] = "abort"
    /\ pc'[txn] # pc[txn] \/ undo_it'[txn] # undo_it[txn]

\* the step is an iteration of the undo loop of abort(txn)
UndoStepOf(txn) ==
    /\ pc[txn] = "abort"
    /\ undo_it[txn] > 0
    /\ undo_it'[txn] < undo_it[txn] \/ pc'[txn] = "raised"

\* rid holds a record whose bytes another transaction than txn wrote (every
\* transaction writes its own bytes, 0 are the bytes of the records the file
\* was opened with)
WrittenByOther(rid, txn) ==
    /\ Contents(file_hdr, pages)[rid] # NoRecord
    /\ Contents(file_hdr, pages)[rid] # Buf(txn)

C14_AbortStep ==
    \A txn \in Txns :
        AbortStepOf(txn) =>
            /\ \A rid \in Rids :
                  WrittenByOther(rid, txn) =>
                      Contents(file_hdr', pages')[rid] = Contents(file_hdr, pages)[rid]
            /\ \A other \in Txns \ {txn} :
                  /\ lock_set'[other] = lock_set[other]
                  /\ write_set'[other] = write_set[other]
                  /\ txn_state'[other] = txn_state[other]

\* C14: under any interleaving of the writes of concurrent transactions,
\* abort(T) changes only what T wrote: every record last written by another
\* transaction keeps its occupancy bit and its bytes, and every other
\* transaction keeps its lock set, write set and state.
C14_AbortIsolated == [][C14_AbortStep]_vars

C15_UndoDeleteStep ==
    \A txn \in Txns :
        (UndoStepOf(txn) /\ write_set[txn][undo_it[txn]].wtype = "DELETE_TUPLE") =>
            LET wr == write_set[txn][undo_it[txn]]
            IN /\ pc'[txn] = "abort"
               /\ Contents(file_hdr', pages')[wr.rid] = wr.record

\* C15 (P8): every DELETE_TUPLE write record abort undoes, in any reachable
\* state (other transactions may have inserted into the table since the
\* delete), is reinserted at the rid of the write record, and a get_record of
\* that rid then returns the before-image (the slot is occupied and holds it).
C15_RidStable == [][C15_UndoDeleteStep]_vars

\* C16: abort(T) always completes: in every reachable state no step of the
\* undo loop raises an exception (no RecordNotFoundError from undoing an
\* INSERT_TUPLE, no InternalError from undoing a DELETE_TUPLE), so that T
\* reaches ABORTED with its locks released and its txn_map entry removed.
C16_AbortCompletes == \A txn \in Txns : pc[txn] # "raised"

\* ------------------------------------------------------------------ C17
\* the write record wr describes the change of the file from before to after:
\* its type matches, its rid is the slot changed, and a DELETE_TUPLE or
\* UPDATE_TUPLE record carries the bytes the slot held before
Captures(wr, before, after) ==
    /\ \A rid \in Rids \ {wr.rid} : after[rid] = before[rid]
    /\ wr.wtype = "INSERT_TUPLE" => (before[wr.rid] = NoRecord /\ after[wr.rid] # NoRecord)
    /\ wr.wtype = "DELETE_TUPLE" =>
          (before[wr.rid] # NoRecord /\ wr.record = before[wr.rid] /\ after[wr.rid] = NoRecord)
    /\ wr.wtype = "UPDATE_TUPLE" =>
          (before[wr.rid] # NoRecord /\ wr.record = before[wr.rid] /\ after[wr.rid] # NoRecord)

\* the step is a step of commit(txn) or abort(txn)
EndStepOf(txn) == AbortStepOf(txn) \/ (txn \in txn_map /\ txn \notin txn_map')

C17_GateStep ==
    LET before == Contents(file_hdr, pages)
        after == Contents(file_hdr', pages')
    IN /\ \A txn \in Txns :
             LET ws == write_set[txn]
                 ws2 == write_set'[txn]
             IN \* the write set changes by one record appended by a successful
                \* call of a GROWING transaction, or by the final cleanup
                /\ ws2 # ws =>
                      \/ ws2 = <<>> /\ Terminal(txn)'
                      \/ /\ ws2 = Append(ws, ws2[Len(ws2)])
                         /\ txn_state[txn] = "GROWING" /\ pc[txn] = "idle"
                         /\ Captures(ws2[Len(ws2)], before, after)
                \* commit and abort request no lock and record nothing
                /\ EndStepOf(txn) =>
                      /\ \A id \in LockIds :
                            Len(QueueOf(lock_table', id)) <= Len(QueueOf(lock_table, id))
                      /\ \A t \in Txns : lock_set'[t] \subseteq lock_set[t]
                      /\ \A t \in Txns : Len(write_set'[t]) <= Len(write_set[t])
       \* a call that changes a record outside the undo is recorded
       /\ (after # before /\ \A txn \in Txns : ~UndoStepOf(txn)) =>
             \E txn \in Txns : Len(write_set'[txn]) = Len(write_set[txn]) + 1

\* C17 (write-set gate): insert_record, delete_record and update_record append
\* a WriteRecord iff the context carries a GROWING transaction, one record per
\* successful call, in call order, of the matching type, with the rid and (for
\* DELETE / UPDATE) the bytes the slot held before the call; during abort and
\* commit the write set never grows and no lock is requested.
C17_WriteSetGate == [][C17_GateStep]_vars

\* abort has undone a write set that holds a record of each type, and the
\* write set is as it was
C17_Witness ==
    \E txn \in Txns :
        /\ pc[txn] = "abort"
        /\ undo_it[txn] = 0
        /\ Len(write_set[txn]) = 3
        /\ {write_set[txn][i].wtype : i \in 1 .. 3} = WTypes
        /\ txn_state[txn] = "SHRINKING"

\* ------------------------------------------------------------- C18 - C20
\* the data pages of the file
DataPages == 1 .. (file_hdr.num_pages - 1)

\* C18 (P1): after any sequence of insert_record, insert_record(rid),
\* delete_record and update_record calls, successful or failing, those of abort
\* included, every data page has popcount(bitmap) = num_records and
\* 0 <= num_records <= num_records_per_page.
C18_BitmapFaithful ==
    \A p \in DataPages :
        /\ popcount(pages[p].bitmap) = pages[p].num_records
        /\ pages[p].num_records >= 0
        /\ pages[p].num_records <= num_records_per_page

\* an abort has run into a failing insert_record(rid) or delete_record, another
\* has completed, and the file has a full page and a page with a free slot
C18_Witness ==
    /\ \E txn \in Txns : pc[txn] = "raised"
    /\ \E txn \in Txns : txn_state[txn] = "ABORTED"
    /\ \E p \in DataPages : pages[p].num_records = num_records_per_page
    /\ \E p \in DataPages : pages[p].num_records < num_records_per_page

\* the pages reached from page p through at most k next_free_page_no links
RECURSIVE Chain(_, _)
Chain(p, k) ==
    IF p = RM_NO_PAGE \/ k = 0 THEN {}
    ELSE {p} \cup Chain(pages[p].next_free_page_no, k - 1)

\* the free list: the chain rooted at first_free_page_no
FreeList == Chain(file_hdr.first_free_page_no, MaxPages)

\* C19 (P2): after any sequence of record manager operations, the undo
\* reinserts of interleaved aborts included, a data page is reachable from
\* first_free_page_no through next_free_page_no links iff its
\* num_records < num_records_per_page.
C19_FreeListExact ==
    \A p \in DataPages :
        (p \in FreeList) <=> (pages[p].num_records < num_records_per_page)

\* C20: in every reachable state the page first_free_page_no names, if any,
\* has a clear bitmap bit, so that insert_record never raises InternalError
\* ("No free slot available") and stores the record in the lowest free slot
\* of the head page of the free list, or of a new page when the list is empty.
C20_HeadHasRoom ==
    /\ file_hdr.first_free_page_no # RM_NO_PAGE =>
          \E i \in SlotNos : ~pages[file_hdr.first_free_page_no].bitmap[i]
    /\ \A txn \in txn_map :
          (file_hdr.first_free_page_no = RM_NO_PAGE => file_hdr.num_pages <= MaxPages) =>
              LET W == insert_record(World(txn), Buf(txn), NoTxn)
                  head == IF file_hdr.first_free_page_no # RM_NO_PAGE
                          THEN file_hdr.first_free_page_no ELSE file_hdr.num_pages
              IN /\ W.err = "OK"
                 /\ W.rid.page_no = head
                 /\ W.rid.slot_no = first_bit(pages[head].bitmap)
                 /\ W.pages[head].bitmap[W.rid.slot_no]

\* ---------------------------------------------------------------- C21
\* the transactions that are live in their growing phase, outside commit
\* and abort
LiveGrowing(txn) ==
    txn \in txn_map /\ txn_state[txn] = "GROWING" /\ pc[txn] \in {"idle", "insert"}

\* the rids insert_record has returned to a transaction
InsertedBy(txn) ==
    {write_set[txn][k].rid : k \in {i \in 1 .. Len(write_set[txn]) :
                                      write_set[txn][i].wtype = "INSERT_TUPLE"}}

\* the sum of num_records over the data pages of the file
RECURSIVE SumRecords(_, _, _)
SumRecords(hdr, pgs, p) ==
    IF p >= hdr.num_pages \/ p > MaxPages + 1 THEN 0
    ELSE (IF p \in PageNos THEN pgs[p].num_records ELSE 0) + SumRecords(hdr, pgs, p + 1)

\* a step in which insert_record returns a rid to txn
InsertReturns(txn) ==
    /\ pc[txn] = "insert"
    /\ pc'[txn] = "idle"
    /\ Len(write_set'[txn]) = Len(write_set[txn]) + 1

C21_InsertStep ==
    \A txn \in Txns : InsertReturns(txn) =>
        LET rid == write_set'[txn][Len(write_set'[txn])].rid
        IN /\ \A u \in Txns \ {txn} : LiveGrowing(u) => rid \notin InsertedBy(u)
           /\ Contents(file_hdr', pages')[rid] = Buf(txn)
           /\ \A u \in Txns \ {txn} : LiveGrowing(u) =>
                 \A r \in InsertedBy(u) : Contents(file_hdr', pages')[r] = Buf(u)
           /\ SumRecords(file_hdr', pages', 1) = SumRecords(file_hdr, pages, 1) + 1

\* C21: when insert_record returns a rid to a transaction, the rid is none
\* that insert_record returned to another live transaction, the record at the
\* rid holds the bytes of the call, the records the other live transactions
\* inserted still hold theirs, and the num_records of the pages have grown by
\* exactly one for this call (by two for the calls of two transactions).
C21_ConcurrentInserts == [][C21_InsertStep]_vars

\* ---------------------------------------------------------------- C22
\* C22: while a transaction that inserted a record is live, no get_record,
\* update_record or delete_record of another transaction on the rid of that
\* record succeeds.
C22_InsertUnobservable ==
    \A t \in Txns, u \in Txns :
        (t # u /\ LiveGrowing(t) /\ Caller(u)) =>
            \A rid \in InsertedBy(t) :
                /\ get_record(World(u), rid, u).err # "OK"
                /\ update_record(World(u), rid, Buf(u), u).err # "OK"
                /\ delete_record(World(u), rid, u).err # "OK"

\* ---------------------------------------------------------------- C23
\* the rids of the UPDATE_TUPLE and DELETE_TUPLE write records of a transaction
WrittenBy(txn) ==
    {write_set[txn][k].rid : k \in {i \in 1 .. Len(write_set[txn]) :
                                      write_set[txn][i].wtype # "INSERT_TUPLE"}}

\* a transaction holds X on the record of every rid it has updated or deleted,
\* from the call on and as long as it has not committed or aborted
C23_XHeld ==
    \A txn \in txn_map : \A rid \in WrittenBy(txn) :
        HoldsMode(lock_table, txn, RecordLockId(rid), "X")

\* no two live transactions hold an UPDATE_TUPLE or DELETE_TUPLE write record
\* for the same rid
C23_OneWriter ==
    \A t \in txn_map, u \in txn_map : t # u => WrittenBy(t) \cap WrittenBy(u) = {}

\* a transaction whose last write record is an UPDATE_TUPLE for rid reads its
\* own bytes at rid
C23_ReadsOwnWrite ==
    \A txn \in Txns :
        (Caller(txn) /\ write_set[txn] # <<>>
            /\ write_set[txn][Len(write_set[txn])].wtype = "UPDATE_TUPLE") =>
        LET W == get_record(World(txn), write_set[txn][Len(write_set[txn])].rid, txn)
        IN W.err = "OK" /\ W.record = Buf(txn)

\* C23: a GROWING transaction that has updated or deleted the record at rid
\* holds a granted X on RECORD(fd, rid) from the call until it commits or
\* aborts; no two live transactions hold an UPDATE_TUPLE or DELETE_TUPLE write
\* record for the same rid; and the transaction's later reads of rid see its
\* own write.
C23_WriterExclusive == C23_XHeld /\ C23_OneWriter /\ C23_ReadsOwnWrite

PassedOver(txn) ==
    LET from == IF scan[txn].at = "none" THEN 0 ELSE RidNo(scan[txn].rid)
        upto == IF scan'[txn].at = "on" THEN RidNo(scan'[txn].rid)
                ELSE MaxPages * num_records_per_page + 1
    IN {rid \in Rids : KnownRid(rid) /\ from < RidNo(rid) /\ RidNo(rid) < upto}

\* a live transaction has deleted the record at rid and not committed
DeletedUncommitted(txn, rid) ==
    /\ txn \in txn_map
    /\ \E k \in 1 .. Len(write_set[txn]) :
          write_set[txn][k].wtype = "DELETE_TUPLE" /\ write_set[txn][k].rid = rid
    /\ ~pages[rid.page_no].bitmap[rid.slot_no]

\* a step of beginTuple or nextTuple that did not throw
ScanMoves(txn) == scan'[txn] # scan[txn] /\ scan'[txn].at \in {"on", "end"}

C25_ScanStep ==
    \A t2 \in Txns : ScanMoves(t2) =>
        \A rid \in PassedOver(t2) : \A t1 \in Txns \ {t2} : ~DeletedUncommitted(t1, rid)

\* C25: a sequential scan of T2 never passes silently over a record that a
\* live transaction T1 has deleted and not committed: beginTuple / nextTuple
\* either stop on the record or throw on a lock conflict.
C25_ScanIsolated == [][C25_ScanStep]_vars

\* ---------------------------------------------------------------- C27
\* the indexes agree with the heap: every index of the table holds exactly one
\* entry (key(record), rid) per occupied rid
IndexHeapConsistent ==
    \A cols \in catalog : index[cols] = HeapEntries(file_hdr, pages, cols)

\* txn has committed and none of its operator runs raised
CommittedRun(txn) == txn_state[txn] = "COMMITTED" /\ ~threw[txn]

\* C27: after a committed run of Delete and Update operators, whatever the rid
\* lists, the set-clauses and the indexes of the table, every index holds
\* exactly the entries of the occupied rids (P3).
C27_IndexHeapAfterCommit ==
    (\E txn \in Txns : CommittedRun(txn)) => IndexHeapConsistent

\* ---------------------------------------------------------------- C28
\* abort(txn) has returned
Aborted(txn) == txn_state[txn] = "ABORTED" /\ pc[txn] = "idle"

\* an index lookup for the key of every record of the heap returns its rid
LookupFindsRecords ==
    \A cols \in catalog : HeapEntries(file_hdr, pages, cols) \subseteq index[cols]

\* no index entry refers to a key the heap does not hold at that rid
NoStaleEntries ==
    \A cols \in catalog : index[cols] \subseteq HeapEntries(file_hdr, pages, cols)

\* C28: after the abort of a transaction that ran Delete or Update operators
\* the indexes are back in their pre-transaction state with the heap: a lookup
\* for the key of every restored record returns its rid, and no entry refers
\* to a key the heap no longer holds at that rid.
C28_IndexRestoredByAbort ==
    (\E txn \in Txns : Aborted(txn) /\ ~threw[txn])
        => (Contents(file_hdr, pages) = opened => LookupFindsRecords /\ NoStaleEntries)

\* ---------------------------------------------------------------- C29
\* the entries of rid in a set of entries
EntriesOf(entries, rid) == {e \in entries : e.rid = rid}

\* one Update operator run on the single rid `rid` with set-clauses sc took
\* this step without raising
UpdatedOne(txn, rid) ==
    /\ Len(write_set'[txn]) = Len(write_set[txn]) + 1
    /\ write_set'[txn][Len(write_set'[txn])] =
          [wtype |-> "UPDATE_TUPLE", rid |-> rid, record |-> pages[rid.page_no].slots[rid.slot_no]]
    /\ threw' = threw

\* what one Update operator run on one rid must have done
C29_UpdateStep ==
    \A txn \in Txns, rid \in Rids :
        UpdatedOne(txn, rid) =>
            LET old == pages[rid.page_no].slots[rid.slot_no]
                new == pages'[rid.page_no].slots[rid.slot_no]
            IN /\ pages'[rid.page_no].bitmap[rid.slot_no]
               /\ \A other \in Rids \ {rid} :
                     /\ pages'[other.page_no].bitmap[other.slot_no]
                           = pages[other.page_no].bitmap[other.slot_no]
                     /\ pages'[other.page_no].slots[other.slot_no]
                           = pages[other.page_no].slots[other.slot_no]
               /\ \A cols \in catalog :
                     IF Key(old, cols) # Key(new, cols)
                     THEN /\ [key |-> Key(old, cols), rid |-> rid] \notin index'[cols]
                          /\ [key |-> Key(new, cols), rid |-> rid] \in index'[cols]
                          /\ \A other \in Rids \ {rid} :
                                EntriesOf(index'[cols], other) = EntriesOf(index[cols], other)
                     ELSE index'[cols] = index[cols]

\* C29: an Update operator run on one rid keeps the record at that rid; in
\* every index whose key of the record changes the entry (old key, rid) is
\* gone and the entry (new key, rid) is there, and the entries of the other
\* rids are as they were; every index whose key of the record stays, and
\* every record not in the rid list, is unchanged.
C29_UpdateFrame == [][C29_UpdateStep]_vars

\* ---------------------------------------------------------------- C26
\* beginTuple of the index scan of txn has returned and txn has neither
\* committed nor aborted
IndexScanning(txn) ==
    ixscan[txn].at = "begun" /\ txn_state[txn] = "GROWING" /\ pc[txn] = "idle"

\* C26: from beginTuple of its index scan until it commits or aborts a
\* transaction holds S (or SIX or X, which cover it) on the table, and no
\* other transaction holds IX, SIX or X on the table.
C26_IndexScanTableS ==
    \A txn \in Txns :
        IndexScanning(txn) =>
            /\ \E mode \in {"S", "SIX", "X"} : HoldsMode(lock_table, txn, TableId, mode)
            /\ \A other \in Txns \ {txn}, mode \in {"IX", "SIX", "X"} :
                  ~HoldsMode(lock_table, other, TableId, mode)

\* ---------------------------------------------------------------- C30
\* the record at an occupied rid
RecAt(rid) == pages[rid.page_no].slots[rid.slot_no]

\* the tuples of the outer child: the occupied rids in page and slot order
OuterRids == ScanRids(HeapEntries(file_hdr, pages, <<>>))

\* the tuples of the inner child when it is begun afresh: the rids of its
\* range, in leaf order, that satisfy its conditions
InnerRids(st) ==
    LET entries == index[st.cols]
        key == [i \in 1 .. Len(st.cols) |-> st.conds[st.cols[i]]]
        range == IF KeyBound(st) THEN KeyRange(entries, key) ELSE entries
        Passes(rid) == pages[rid.page_no].bitmap[rid.slot_no] /\ Satisfy(RecAt(rid), st.conds)
    IN SelectSeq(ScanRids(range), Passes)

\* the pairs of one outer tuple, in inner order
PairsOf(l, inner, conds) ==
    LET Joins(r) == JoinSatisfy(RecAt(l), RecAt(r), conds)
        rs == SelectSeq(inner, Joins)
    IN [i \in 1 .. Len(rs) |-> <<l, rs[i]>>]

\* the satisfying pairs in outer-major, inner-minor order
RECURSIVE JoinPairs(_, _, _)
JoinPairs(outer, inner, conds) ==
    IF outer = <<>> THEN <<>>
    ELSE PairsOf(Head(outer), inner, conds) \o JoinPairs(Tail(outer), inner, conds)

IsPrefix(s, t) == Len(s) <= Len(t) /\ SubSeq(t, 1, Len(s)) = s

\* C30: the tuples a nested-loop join returns are exactly the pairs (l, r) of
\* an outer and an inner tuple that satisfy the join conditions, in
\* outer-major, inner-minor order, the inner child scanned from its start for
\* every outer tuple, also when it is an index scan with its whole key bound.
C30_JoinPairs ==
    \A txn \in Txns :
        join[txn].at \in {"on", "got", "end"} =>
            LET expected == JoinPairs(OuterRids, InnerRids(ixscan[txn]), join[txn].conds)
            IN /\ IsPrefix(join[txn].out, expected)
               /\ join[txn].at = "end" => join[txn].out = expected

\* ---------------------------------------------------------------- C31
\* beginTuple or nextTuple of the join of txn has returned (Next does not
\* move the children)
JoinReturned(txn) == join[txn].at \in {"on", "got", "end"}

\* C31: after every return of beginTuple or nextTuple of a join, is_end() is
\* true iff the left child is at its end; and when is_end() is false neither
\* child is at its end and the pair they stand on satisfies every join
\* condition.
C31_JoinIsEnd ==
    \A txn \in Txns :
        JoinReturned(txn) =>
            /\ join[txn].at = "end" <=> join[txn].l = NoRid
            /\ join[txn].at # "end" =>
                  /\ ~IxIsEnd(ixscan[txn])
                  /\ JoinSatisfy(RecAt(join[txn].l), RecAt(ixscan[txn].rid), join[txn].conds)

\* nextTuple has returned on a second pair that satisfies a join condition
C31_Witness ==
    \E txn \in Txns :
        /\ join[txn].at = "on"
        /\ join[txn].conds # {}
        /\ Len(join[txn].out) >= 1

\* ---------------------------------------------------------------- C32
\* the rid the next insert_record on the file returns: the first clear bit
\* of the head of the free list, the first slot of a new page without one
NextInsertRid(hdr, pgs) ==
    IF hdr.first_free_page_no = RM_NO_PAGE THEN [page_no |-> hdr.num_pages, slot_no |-> 0]
    ELSE [page_no |-> hdr.first_free_page_no,
          slot_no |-> first_bit(pgs[hdr.first_free_page_no].bitmap)]

\* the abort of txn undoes the one insert_record txn made, while no other
\* transaction has aborted or is aborting
UndoesOnlyInsert(txn) ==
    /\ pc[txn] = "abort"
    /\ undo_it[txn] = 1
    /\ undo_it'[txn] = 0
    /\ Len(write_set[txn]) = 1
    /\ write_set[txn][1].wtype = "INSERT_TUPLE"
    /\ \A u \in Txns \ {txn} :
          txn_state[u] \in {"NONE", "GROWING", "COMMITTED"} /\ pc[u] \in {"idle", "insert"}

\* what the undo of the insert must leave
C32_UndoStep ==
    \A txn \in Txns :
        UndoesOnlyInsert(txn) =>
            LET R1 == write_set[txn][1].rid
            IN /\ \A rid \in Rids : Contents(file_hdr', pages')[rid] # Buf(txn)
               /\ \A rid \in Rids :
                     Contents(file_hdr, pages)[rid] # Buf(txn)
                        => Contents(file_hdr', pages')[rid] = Contents(file_hdr, pages)[rid]
               /\ NextInsertRid(file_hdr', pages') = R1

\* C32 (S1): when T1 has inserted one record at R1, the other transactions
\* have only inserted and committed, and T1 aborts, then no slot holds T1's
\* record any more, the records of the others are still at their rids, and
\* the next insert_record returns R1.
C32_SlotReuse == [][C32_UndoStep]_vars

\* ---------------------------------------------------------------- C33
\* a call of the record manager is in flight for txn
CallInFlight(txn) == pc[txn] = "insert"

\* C33: every call of get_record, insert_record, insert_record(rid),
\* delete_record and update_record unpins each page it fetched or created on
\* every exit path: once the call has returned or thrown, no page it fetched
\* is still pinned by it.
C33_PinsBalanced ==
    \A txn \in Txns : ~CallInFlight(txn) => pinned[txn] = {}

\* ---------------------------------------------------------------- C34
\* the call that ended in W left the file and the write set of its caller
\* as they were
FileUntouched(W, txn) ==
    /\ W.hdr = file_hdr
    /\ W.pages = pages
    /\ W.ws = write_set[txn]

\* the calls of txn on rid that fail with RecordNotFoundError, and the
\* insert_record(rid, buf) that fails, in the state at hand
FailedCalls(txn, rid) ==
    {W \in {get_record(World(txn), rid, txn), delete_record(World(txn), rid, txn)}
          \cup {update_record(World(txn), rid, buf, txn) : buf \in Bytes} :
        W.err = "RecordNotFoundError"}
    \cup {W \in {insert_record_rid(World(txn), rid, buf) : buf \in Bytes} :
             W.err \in {"PageNotExistError", "InternalError"}}

\* C34: a failing call is never partial: get_record, delete_record and
\* update_record that throw RecordNotFoundError, and insert_record(rid, buf)
\* that throws PageNotExistError or InternalError, leave every page header,
\* bitmap and slot, the file header and the caller's write set unchanged.
C34_NeverPartial ==
    \A txn \in txn_map, rid \in Rids :
        \A W \in FailedCalls(txn, rid) : FileUntouched(W, txn)

\* a transaction with a write record, for which a call on a free slot throws
\* RecordNotFoundError, insert_record(rid, buf) on an occupied slot throws
\* InternalError and on a page beyond the file PageNotExistError
C34_Witness ==
    \E txn \in txn_map :
        /\ CanCall(txn)
        /\ write_set[txn] # <<>>
        /\ \E rid \in Rids : update_record(World(txn), rid, Buf(txn), txn).err
                                = "RecordNotFoundError"
        /\ \E rid \in Rids : insert_record_rid(World(txn), rid, Buf(txn)).err = "InternalError"
        /\ \E rid \in Rids : insert_record_rid(World(txn), rid, Buf(txn)).err
                                = "PageNotExistError"

\* ---------------------------------------------------------------- C35
\* the page numbers a rid can carry: NO_PAGE, the header page, the data
\* pages and the page numbers beyond the file
PageArgs == {RM_NO_PAGE, RM_FILE_HDR_PAGE} \cup PageNos \cup {MaxPages + 1}

\* page_no is a data page of the file
IsDataPage(page_no) == page_no > RM_FILE_HDR_PAGE /\ page_no < file_hdr.num_pages

\* C35: get_record, delete_record and update_record called with a rid whose
\* page_no is not a data page (at or beyond num_pages, the header page 0, or
\* negative such as NO_PAGE) fail with PageNotExistError without reading or
\* changing a page: fetch_page_handle(rid.page_no), the one check of the
\* page number the three calls make, throws and fetches nothing.
C35_PageNotExist ==
    \A txn \in txn_map, page_no \in PageArgs :
        ~IsDataPage(page_no) =>
            LET W == fetch_page_handle(World(txn), page_no)
            IN /\ W.err = "PageNotExistError"
               /\ W.pins = World(txn).pins
               /\ W.pages = pages

\* ---------------------------------------------------------------- C36
\* the walk from page p along next_free_page_no reaches the end of the list
\* within k links
RECURSIVE EndsWithin(_, _)
EndsWithin(p, k) ==
    IF p = RM_NO_PAGE THEN TRUE
    ELSE IF k = 0 THEN FALSE
    ELSE EndsWithin(pages[p].next_free_page_no, k - 1)

\* C36: in every reachable state the free list is a finite simple chain: the
\* walk from first_free_page_no along next_free_page_no passes no page twice
\* and ends at NO_PAGE (release_page_handle never prepends a page that is
\* already on the chain, which would close the chain into a cycle).
C36_SimpleChain == EndsWithin(file_hdr.first_free_page_no, file_hdr.num_pages - 1)

\* ---------------------------------------------------------------- C37
\* the rids of the write records of txn
WriteRids(txn) == {write_set[txn][i].rid : i \in 1 .. Len(write_set[txn])}

\* the rids delete_record has freed for txn
DeletedBy(txn) ==
    {write_set[txn][k].rid : k \in {i \in 1 .. Len(write_set[txn]) :
                                      write_set[txn][i].wtype = "DELETE_TUPLE"}}

\* a transaction that has begun and not yet ended
Live(txn) == txn \in txn_map

\* a step in which insert_record hands a rid to txn
HandsOut(txn) ==
    /\ Len(write_set'[txn]) = Len(write_set[txn]) + 1
    /\ write_set'[txn][Len(write_set'[txn])].wtype = "INSERT_TUPLE"

\* the rid handed out is not one a live transaction other than txn has freed,
\* and after the step no rid is in the write sets of two live transactions
C37_InsertStep ==
    \A txn \in Txns :
        HandsOut(txn) =>
            \A t \in Txns \ {txn} :
                Live(t) =>
                    /\ write_set'[txn][Len(write_set'[txn])].rid \notin DeletedBy(t)
                    /\ (WriteRids(txn) \cap WriteRids(t) = {}
                          => write_set'[txn][Len(write_set'[txn])].rid \notin WriteRids(t))

\* C37: a slot freed by delete_record of a live transaction is not handed out
\* by insert_record to another transaction before the first has ended, so
\* that no two live transactions have write records for the same rid.
C37_NoSharedRid == [][C37_InsertStep]_vars

\* ---------------------------------------------------------------- C38
\* an operator run of txn ends in an exception in this step
RunRaises(txn) == ~threw[txn] /\ threw'[txn]

\* the step changes the record of rid in the table file
HeapChanged(rid) ==
    \/ pages'[rid.page_no].bitmap[rid.slot_no] # pages[rid.page_no].bitmap[rid.slot_no]
    \/ pages'[rid.page_no].slots[rid.slot_no] # pages[rid.page_no].slots[rid.slot_no]

\* a run that raises has removed or added index entries only of rids whose
\* record it has deleted or updated
C38_RunStep ==
    \A txn \in Txns :
        RunRaises(txn) =>
            \A cols \in catalog, rid \in Rids :
                EntriesOf(index'[cols], rid) # EntriesOf(index[cols], rid)
                    => HeapChanged(rid)

\* C38: index maintenance is atomic with the heap mutation for each rid: when
\* delete_record or update_record raises while Delete or Update processes a
\* rid, no index entry of that rid has been removed or added.
C38_IndexAtomic == [][C38_RunStep]_vars

\* ---------------------------------------------------------------- C39
\* C39: the lock table is well formed: every queue holds at most one request
\* of each transaction, and no LockDataId is mapped to an empty queue, neither
\* after unlock has removed the last request of a queue nor after a
\* lock_internal that failed.
C39_LockTableWellFormed ==
    \A id \in DOMAIN lock_table :
        /\ lock_table[id] # <<>>
        /\ \A txn \in Txns : Len(RequestsOf(lock_table, txn, id)) <= 1

\* a lock_internal has just failed on a queue that is still in the lock
\* table, a transaction has released every lock it held, and an id has no
\* queue in the lock table
C39_Witness ==
    /\ last.op = "lock"
    /\ last.res \in {"DEADLOCK_PREVENTION", "UPGRADE_CONFLICT"}
    /\ last.id \in DOMAIN lock_table
    /\ \E txn \in Txns : released[txn] /\ lock_set[txn] = {}
    /\ \E id \in LockIds : id \notin DOMAIN lock_table

\* ---------------------------------------------------------------- C40
\* C40: after any sequence of create_index and drop_index calls on the table,
\* the 'is indexed' flag of a column is true iff an index of the table
\* includes the column, and the open index handles are those of the indexes
\* listed in the table metadata.
C40_IndexFlags ==
    /\ \A c \in Cols : col_index[c] <=> \E cols \in catalog : c \in ColsOf(cols)
    /\ DOMAIN index = catalog

====
